---- MODULE Spec2Model ----
(***************************************************************************)
(* PyroMan: 433MHz firing console.                                         *)
(*                                                                         *)
(*   Spec       fire_control.py on state.py, direktzuender_wartung.py and  *)
(*              rf_sender.py (the Fire Orchestrator)                       *)
(*   SpecAuth   authorize.py (the Authorization Session, both transports)  *)
(*   SpecCodec  lib/_433.py (the decoder rx, fed by the encoder's train)   *)
(*   SpecCancel lib/_433.py (the decoder rx and its cancel)                *)
(*   SpecSilence  lib/_433.py (the decoder rx after the last edge)         *)
(*   SpecWeb    pyroman.py (the web console's own fire handling)           *)
(*   SpecSessions  pyroman.py and authorize.py (auth_start requests of     *)
(*              several WebSocket clients)                                 *)
(*   SpecAuthLive  authorize.py with a thread and a clock that keep going  *)
(*   SpecConsole  pyroman.py (every message of handle_ws_message)          *)
(*   SpecPair   pyroman.handle_fire beside fire_control.py, request by     *)
(*              request                                                    *)
(***************************************************************************)
EXTENDS Integers, Sequences, FiniteSets, TLC

(***************************************************************************)
(* Bounds of the model                                                     *)
(***************************************************************************)
\* channel numbers a fire/reset request may carry: 1..MaxKanal
MaxKanal == 2
\* standalone igniter numbers a request may carry: 1..MaxNr; the configured
\* count and the length of a store left by an earlier run stay below MaxNr
MaxNr == 2
\* codes or lines delivered to one authenticate call
MaxCodes == 2
\* authenticate(timeout): 0..MaxTimeout ticks
MaxTimeout == 4
\* bit counts of a transmitted code: MinBits..MaxSentBits
MaxSentBits == 9
\* copies of the train in one burst: 1..MaxRepeats
MaxRepeats == 3
\* connected WebSocket clients: 1..MaxClients
MaxClients == 2
\* calls of rx.cancel() on one receiver
MaxCancels == 2

(***************************************************************************)
(* Program constants                                                       *)
(***************************************************************************)
\* direktzuender_wartung.py:49  dz_config.get('anzahl', 50) if dz_config else 50
DefaultAnzahl == 50
\* config.py:333  config_dz.get("erste_box_nr", 1001)
ErsteBoxNr == 1001
\* authorize.py:156 and 250  time.sleep(0.05), in ticks
PollTicks == 2
\* authorize.py:211  time.sleep(2), in ticks
SettleTicks == 80
\* lib/_433.py:27  min_bits=8, max_bits=32
MinBits == 8
MaxBits == 32
\* lib/_433.py:79 and 103  edge_len > 4000
LongGap == 4000

VARIABLES
    cfg,                    \* config.py: _config / _config_valid, fixed per run
    authorized,             \* state.py: _state['authorized']
    fire_enabled,           \* state.py: _state['fire_enabled']
    koffer_states,          \* state.py: keys of _state['koffer_states'] that are True
    direktzuender_states,   \* state.py: keys of _state['direktzuender_states'] that are True
    status_file,            \* direktzuender_status.json
    rf_sender,              \* fire_control.py: _rf_sender is an initialised RFSender
    fire_call,              \* the fire request in progress, and the last result
    now,                    \* time.time(), in ticks of 25 ms, since authenticate was called
    auth,                   \* authorize.py: the authenticate call (control point, locals)
    pi_open,                \* _authenticate_pigpio: pi is a pigpio connection not yet stopped
    receiver_armed,         \* lib/_433.py: rx._cb is registered with pigpio
    result,                 \* _authenticate_pigpio: result["authenticated"], result["done"]
    callback,               \* on_code_received in progress on the pigpio thread
    ser_open,               \* _authenticate_arduino: ser is an open serial handle
    ser_buf,                \* the lines waiting in the serial input buffer
    scan_sent,              \* number of SCAN commands written to the bridge
    traffic,                \* what was delivered to this call, and when
    rx_state,               \* lib/_433.py: the fields of the rx object
    rx_cb,                  \* lib/_433.py: rx._cb, the pin's watchdog, the cancels so far
    emitted,                \* the calls of rx.callback so far
    pending,                \* the edges of the burst not yet seen by the pin
    sent,                   \* the code, bit count and parameters of the burst
    silence,                \* whether the watchdog has fired after the burst
    web,                    \* pyroman.py: the state dict
    web_rf_sender,          \* pyroman.py: rf_sender is an initialised RFSender
    web_call,               \* the fire message in progress, and the last outcome
    host_platform,          \* what detect_platform() finds on this host
    ws_auth                 \* per WebSocket client: its handle_auth_start in progress

fireVars == <<authorized, fire_enabled, koffer_states, direktzuender_states,
              status_file, rf_sender, fire_call>>

authVars == <<now, auth, pi_open, receiver_armed, result, callback,
              ser_open, ser_buf, scan_sent, traffic>>

codecVars == <<rx_state, rx_cb, emitted, pending, sent, silence>>

webVars == <<web, web_rf_sender, web_call>>

sessVars == <<host_platform, ws_auth>>

\* what the operations of the Fire Orchestrator leave alone
outsideFire == <<authVars, codecVars, webVars, sessVars>>

\* what an authenticate call leaves alone
outsideAuth == <<fireVars, codecVars, webVars, sessVars>>

\* what the decoder leaves alone
outsideCodec == <<fireVars, authVars, webVars, sessVars>>

\* what the web console leaves alone: it shares only the status file
outsideWeb == <<authorized, fire_enabled, koffer_states, direktzuender_states,
                rf_sender, fire_call, authVars, codecVars, sessVars>>

\* what the handlers of auth_start leave alone: they share the state dict
outsideSessions == <<fireVars, authVars, codecVars, web_rf_sender, web_call>>

vars == <<cfg, fireVars, authVars, codecVars, webVars, sessVars>>

(***************************************************************************)
(* config.py                                                               *)
(***************************************************************************)
\* the "koffer" section of config.json: one case, koffer_nummer 200 for id 2
\* (the example of get_channel_code's docstring)
KofferList == <<[id |-> 2, koffer_nummer |-> 200]>>

\* ids a request may name: the configured one and one that is not configured
KofferIds == {2, 3}
Kanaele == 1..MaxKanal
Nummern == 1..MaxNr

\* an optional integer: None, or Some(v)
None == <<>>
Some(v) == <<v>>
Val(o) == o[1]

RECURSIVE FindKoffer(_, _)
FindKoffer(list, koffer_id) ==
    IF list = <<>> THEN None
    ELSE IF Head(list).id = koffer_id
         THEN Some(Head(list).koffer_nummer)
         ELSE FindKoffer(Tail(list), koffer_id)

get_channel_code_unvalidated(koffer_id, kanal_nr) ==
    LET koffer_nummer == FindKoffer(KofferList, koffer_id)
    IN  IF koffer_nummer = None THEN None
        ELSE Some(Val(koffer_nummer) + kanal_nr)

get_channel_code_by_id(koffer_id, kanal_nr) ==
    IF ~cfg.valid THEN None
    ELSE IF FindKoffer(KofferList, koffer_id) = None THEN None
         ELSE Some(100 * koffer_id + kanal_nr - 1)

get_channel_code(koffer_id, kanal_nr) ==
    IF ~cfg.valid THEN None
    ELSE LET koffer_nummer == FindKoffer(KofferList, koffer_id)
         IN  IF koffer_nummer = None THEN None
             ELSE Some(Val(koffer_nummer) + kanal_nr)

get_direktzuender_code(nr) ==
    IF ~cfg.valid THEN None ELSE Some(ErsteBoxNr + nr - 1)

\* get_direktzuender_config() is None when the config is invalid
config_anzahl == IF cfg.valid THEN cfg.anzahl ELSE DefaultAnzahl

(***************************************************************************)
(* direktzuender_wartung.py: the persisted availability store              *)
(***************************************************************************)
NewEntries(from, to) ==
    [i \in 1..(IF to >= from THEN to - from + 1 ELSE 0) |->
        [nr |-> from + i - 1, available |-> TRUE]]

\* _save_full_status: a failed write is logged and leaves the file as it was
save_full_status(file, status_list, writeOk) ==
    IF writeOk THEN [exists |-> TRUE, list |-> status_list] ELSE file

\* _load_full_status: the list it returns and the file it leaves.
\* readOk: the existing file could be opened and parsed.
load_full_status(file, readOk, writeOk) ==
    LET loaded   == IF file.exists /\ readOk THEN file.list ELSE <<>>
        count    == Len(loaded)
        extended == IF count < config_anzahl
                    THEN loaded \o NewEntries(count + 1, config_anzahl)
                    ELSE loaded
        file1    == IF count < config_anzahl
                    THEN save_full_status(file, extended, writeOk)
                    ELSE file
        initial  == IF extended = <<>> THEN NewEntries(1, config_anzahl) ELSE extended
        file2    == IF extended = <<>>
                    THEN save_full_status(file1, initial, writeOk)
                    ELSE file1
    IN  [list |-> initial, file |-> file2]

RECURSIVE FirstWithNr(_, _, _)
\* index of the first entry of status_list with that nr, 0 if there is none
FirstWithNr(status_list, nr, i) ==
    IF i > Len(status_list) THEN 0
    ELSE IF status_list[i].nr = nr THEN i
    ELSE FirstWithNr(status_list, nr, i + 1)

is_available_in(status_list, nr) ==
    LET i == FirstWithNr(status_list, nr, 1)
    IN  IF i = 0 THEN FALSE ELSE status_list[i].available

set_available_in(status_list, nr, available) ==
    LET i == FirstWithNr(status_list, nr, 1)
    IN  IF i = 0 THEN status_list
        ELSE [status_list EXCEPT ![i].available = available]

\* a file that does not exist is not read at all
ReadOutcomes == IF status_file.exists THEN BOOLEAN ELSE {TRUE}

\* the load writes only a list it extended or initialised
LoadSaves(readOk) ==
    LET count == IF status_file.exists /\ readOk THEN Len(status_file.list) ELSE 0
    IN  count < config_anzahl \/ count = 0

LoadWriteOutcomes(readOk) == IF LoadSaves(readOk) THEN BOOLEAN ELSE {TRUE}

\* set_direktzuender_available(nr, available)
SetDirektzuenderAvailable(nr, available) ==
    \E readOk \in ReadOutcomes, writeOk2 \in BOOLEAN :
     \E writeOk1 \in LoadWriteOutcomes(readOk) :
      LET l == load_full_status(status_file, readOk, writeOk1)
      IN  /\ status_file' = save_full_status(l.file,
                                set_available_in(l.list, nr, available), writeOk2)
          /\ UNCHANGED <<outsideFire, cfg, authorized, fire_enabled, koffer_states,
                       direktzuender_states, rf_sender, fire_call>>

\* get_direktzuender_list(): the load may extend the file
GetDirektzuenderList ==
    /\ \E readOk \in ReadOutcomes : \E writeOk \in LoadWriteOutcomes(readOk) :
          status_file' = load_full_status(status_file, readOk, writeOk).file
    /\ status_file' # status_file
    /\ UNCHANGED <<outsideFire, cfg, authorized, fire_enabled, koffer_states,
                   direktzuender_states, rf_sender, fire_call>>

(***************************************************************************)
(* state.py                                                                *)
(***************************************************************************)
SetAuthorized(value) ==
    /\ authorized' = value
    /\ UNCHANGED <<outsideFire, cfg, fire_enabled, koffer_states, direktzuender_states,
                   status_file, rf_sender, fire_call>>

SetFireEnabled(value) ==
    /\ fire_enabled' = value
    /\ UNCHANGED <<outsideFire, cfg, authorized, koffer_states, direktzuender_states,
                   status_file, rf_sender, fire_call>>

\* set_koffer_fired with the dictionary replaced instead of updated
set_koffer_fired_replacing(koffer_id, kanal_nr) == {<<koffer_id, kanal_nr>>}

set_koffer_fired(koffer_id, kanal_nr) == koffer_states \cup {<<koffer_id, kanal_nr>>}

set_direktzuender_fired(nr) == direktzuender_states \cup {nr}

ResetKoffer(koffer_id, kanal_nr) ==
    /\ koffer_states' = koffer_states \ {<<koffer_id, kanal_nr>>}
    /\ UNCHANGED <<outsideFire, cfg, authorized, fire_enabled, direktzuender_states,
                   status_file, rf_sender, fire_call>>

ResetDirektzuender(nr) ==
    /\ direktzuender_states' = direktzuender_states \ {nr}
    /\ UNCHANGED <<outsideFire, cfg, authorized, fire_enabled, koffer_states,
                   status_file, rf_sender, fire_call>>

ResetAll ==
    /\ koffer_states' = {}
    /\ direktzuender_states' = {}
    /\ UNCHANGED <<outsideFire, cfg, authorized, fire_enabled, status_file, rf_sender, fire_call>>

(***************************************************************************)
(* rf_sender.py                                                            *)
(***************************************************************************)
\* tx(pi, gpio, repeats, bits, gap, t0, t1): the encoder's setup fails when
\* the bit count is 0, the repeat count is 0, or the output cannot be armed
tx_init(armed) == cfg.bits # 0 /\ cfg.repeats # 0 /\ armed

RFSenderInit_unchecked(connected, txOk) == cfg.valid /\ connected /\ txOk

\* RFSender.__init__ succeeds: valid config, pigpiod connected, tx set up
RFSenderInit(connected, txOk) == cfg.valid /\ connected /\ tx_init(txOk)

(***************************************************************************)
(* fire_control.py                                                         *)
(***************************************************************************)
\* result: "none" while no request has returned yet, "ok" for (True, None),
\* "failed" for (False, msg)
Idle == [pc |-> "idle", kind |-> "", id |-> 0, kanal |-> 0, code |-> None, tx |-> <<>>,
         result |-> "none", msg |-> ""]

\* _check_authorization
check_authorization ==
    IF ~authorized THEN "Nicht autorisiert"
    ELSE IF ~fire_enabled THEN "Feuer nicht freigegeben"
    ELSE ""

\* return (False, msg): the request is over, only its result is kept
Failed(msg) == [Idle EXCEPT !.result = "failed", !.msg = msg]

\* _get_rf_sender: the cached instance, or a new one if it can be initialised
get_rf_sender(connected, txOk) == rf_sender \/ RFSenderInit(connected, txOk)

\* the outcomes of a first RFSender(): none is tried while an instance is cached
SenderOutcomes == IF rf_sender THEN {<<TRUE, TRUE>>} ELSE BOOLEAN \X BOOLEAN

\* lines 84-87 and 128-131: fetch the sender, then go on to sender.send(code)
AcquireSender(kind, id, kanal, code) ==
    \E hw \in SenderOutcomes :
        /\ rf_sender' = get_rf_sender(hw[1], hw[2])
        /\ fire_call' =
             IF rf_sender'
             THEN [Idle EXCEPT !.pc = "send", !.kind = kind, !.id = id,
                               !.kanal = kanal, !.code = code]
             ELSE Failed("RF-Sender nicht verfuegbar")

\* fire_koffer that refuses a channel whose fired flag is set
FireKofferCheck_once(koffer_id, kanal_nr) ==
    /\ fire_call.pc = "idle"
    /\ LET error_msg == check_authorization
           code      == get_channel_code(koffer_id, kanal_nr)
       IN  IF error_msg # ""
           THEN /\ fire_call' = Failed(error_msg)
                /\ UNCHANGED rf_sender
           ELSE IF code = None
           THEN /\ fire_call' = Failed("Ungueltiger Koffer")
                /\ UNCHANGED rf_sender
           ELSE IF <<koffer_id, kanal_nr>> \in koffer_states
           THEN /\ fire_call' = Failed("Bereits gefeuert")
                /\ UNCHANGED rf_sender
           ELSE AcquireSender("koffer", koffer_id, kanal_nr, code)
    /\ UNCHANGED <<outsideFire, cfg, authorized, fire_enabled, koffer_states,
                   direktzuender_states, status_file>>

\* fire_koffer up to the call of sender.send (lines 75-87)
FireKofferCheck(koffer_id, kanal_nr) ==
    /\ fire_call.pc = "idle"
    /\ LET error_msg == check_authorization
           code      == get_channel_code(koffer_id, kanal_nr)
       IN  IF error_msg # ""
           THEN /\ fire_call' = Failed(error_msg)
                /\ UNCHANGED rf_sender
           ELSE IF code = None
           THEN /\ fire_call' = Failed("Ungueltiger Koffer")
                /\ UNCHANGED rf_sender
           ELSE AcquireSender("koffer", koffer_id, kanal_nr, code)
    /\ UNCHANGED <<outsideFire, cfg, authorized, fire_enabled, koffer_states,
                   direktzuender_states, status_file>>

\* fire_direktzuender up to the call of sender.send (lines 115-131)
FireDirektzuenderCheck(nr) ==
    /\ fire_call.pc = "idle"
    /\ LET error_msg == check_authorization
           code      == get_direktzuender_code(nr)
       IN  IF error_msg # ""
           THEN /\ fire_call' = Failed(error_msg)
                /\ UNCHANGED <<rf_sender, status_file>>
           ELSE \E readOk \in ReadOutcomes : \E writeOk \in LoadWriteOutcomes(readOk) :
                  LET l == load_full_status(status_file, readOk, writeOk)
                  IN  /\ status_file' = l.file
                      /\ IF ~is_available_in(l.list, nr)
                         THEN /\ fire_call' = Failed("Direktzuender nicht verfuegbar")
                              /\ UNCHANGED rf_sender
                         ELSE IF code = None
                         THEN /\ fire_call' = Failed("Ungueltiger Direktzuender")
                              /\ UNCHANGED rf_sender
                         ELSE AcquireSender("direktzuender", nr, 0, code)
    /\ UNCHANGED <<outsideFire, cfg, authorized, fire_enabled, koffer_states, direktzuender_states>>

\* sender.send(code) with the RFSenderError swallowed: the request goes on
FireSend_swallowing(sendOk) ==
    /\ fire_call.pc = "send"
    /\ fire_call' =
         IF rf_sender /\ sendOk
         THEN [fire_call EXCEPT !.pc = "mark", !.tx = Append(@, Val(fire_call.code))]
         ELSE [fire_call EXCEPT !.pc = "mark"]
    /\ UNCHANGED <<outsideFire, cfg, authorized, fire_enabled, koffer_states,
                   direktzuender_states, status_file, rf_sender>>

\* sender.send(code): RFSender.send raises RFSenderError when the sender is no
\* longer initialised or tx.send fails
FireSend(sendOk) ==
    /\ fire_call.pc = "send"
    /\ fire_call' =
         IF rf_sender /\ sendOk
         THEN [fire_call EXCEPT !.pc = "mark", !.tx = Append(@, Val(fire_call.code))]
         ELSE Failed("Sendefehler")
    /\ UNCHANGED <<outsideFire, cfg, authorized, fire_enabled, koffer_states,
                   direktzuender_states, status_file, rf_sender>>

\* state.set_koffer_fired / state.set_direktzuender_fired, return (True, None)
FireMark ==
    /\ fire_call.pc = "mark"
    /\ IF fire_call.kind = "koffer"
       THEN /\ koffer_states' = set_koffer_fired(fire_call.id, fire_call.kanal)
            /\ UNCHANGED direktzuender_states
       ELSE /\ direktzuender_states' = set_direktzuender_fired(fire_call.id)
            /\ UNCHANGED koffer_states
    /\ fire_call' = [Idle EXCEPT !.result = "ok"]
    /\ UNCHANGED <<outsideFire, cfg, authorized, fire_enabled, status_file, rf_sender>>

\* fire_control.cleanup()
Cleanup ==
    /\ rf_sender
    /\ rf_sender' = FALSE
    /\ UNCHANGED <<outsideFire, cfg, authorized, fire_enabled, koffer_states,
                   direktzuender_states, status_file, fire_call>>

(***************************************************************************)
(* authorize.py: the Authorization Session                                 *)
(*                                                                         *)
(* Time is counted in ticks of 25 ms.  A statement takes no time; time     *)
(* passes only while the session sleeps, and never beyond the end of the   *)
(* sleep.  The radio and the bridge deliver at any moment.                 *)
(***************************************************************************)
\* the "autorisierung" section is validated only when the config is valid
get_auth_code == IF cfg.valid THEN Some(cfg.auth_code) ELSE None

\* config.get_auth_check() and config.get_arduino_port() are called by
\* authorize.py (lines 70 and 200) and defined in no file of src/: the first
\* is the specification's "auth-required flag", read as config.py reads it
\* in is_auth_required(); the second is its "serial port path".
get_auth_check == IF cfg.valid THEN cfg.auth_required ELSE TRUE

get_arduino_port == "port"

Platforms == {"pi4", "pi5", "unknown"}

NoCall ==
    [pc |-> "idle", platform |-> "", timeout |-> 0, start_time |-> 0,
     wake |-> 0, value |-> "none", outcome |-> "none", failure |-> ""]

NoResult == [authenticated |-> FALSE, done |-> FALSE]

NoTraffic ==
    [count |-> 0, matches |-> 0, early |-> FALSE, in_time |-> FALSE,
     tolerated |-> FALSE, before_drain |-> FALSE, after_scan |-> FALSE,
     skipped |-> 0, first_at |-> None]

elapsed == now - auth.start_time

\* the caller has control: before the first call, or after a call returned
\* or raised
Returned == auth.pc \in {"idle", "returned"}

\* return value / raise of authenticate, once nothing is left to release
Leave(call, outcome, failure) ==
    [call EXCEPT !.pc = "returned", !.outcome = outcome, !.value = "none",
                 !.failure = failure]

\* authenticate(timeout), lines 74-97: without the check of line 70
AuthCall_without_bypass(platform, timeout) ==
    /\ Returned
    /\ now' = 0
    /\ result' = NoResult
    /\ traffic' = NoTraffic
    /\ scan_sent' = 0
    /\ callback' = "idle"
    /\ LET call == [NoCall EXCEPT !.timeout = timeout, !.platform = platform]
       IN  auth' =
             IF ~cfg.valid
             THEN Leave(call, "AuthorizeError", "config_invalid")
             ELSE IF get_auth_code = None
             THEN Leave(call, "AuthorizeError", "no_auth_code")
             ELSE IF platform = "pi4"
             THEN [call EXCEPT !.pc = "pigpio_connect"]
             ELSE [call EXCEPT !.pc = "serial_open"]
    /\ UNCHANGED <<outsideAuth, cfg, pi_open, receiver_armed, ser_open, ser_buf>>

\* authenticate(timeout), lines 69-97, with the else branch of line 95
\* calling _authenticate_pigpio
AuthCall_gpio_fallback(platform, timeout) ==
    /\ Returned
    /\ now' = 0
    /\ result' = NoResult
    /\ traffic' = NoTraffic
    /\ scan_sent' = 0
    /\ callback' = "idle"
    /\ LET call == [NoCall EXCEPT !.timeout = timeout]
       IN  auth' =
             IF ~get_auth_check
             THEN Leave(call, "true", "")
             ELSE IF ~cfg.valid
             THEN Leave(call, "AuthorizeError", "config_invalid")
             ELSE IF get_auth_code = None
             THEN Leave(call, "AuthorizeError", "no_auth_code")
             ELSE IF platform # "pi5"
             THEN [call EXCEPT !.pc = "pigpio_connect", !.platform = platform]
             ELSE [call EXCEPT !.pc = "serial_open", !.platform = platform]
    /\ UNCHANGED <<outsideAuth, cfg, pi_open, receiver_armed, ser_open, ser_buf>>

\* authenticate(timeout), lines 69-97, up to the call of the transport.
\* result is the dict of this call (line 123): a callback of an earlier call
\* that has not finished writes to the dict of that call.
\* authenticate, lines 69-82: what the checks before the dispatch decide
authenticate_checks ==
    IF ~get_auth_check THEN "true"
    ELSE IF ~cfg.valid THEN "config_invalid"
    ELSE IF get_auth_code = None THEN "no_auth_code"
    ELSE "dispatch"

AuthCall(platform, timeout) ==
    /\ Returned
    /\ now' = 0
    /\ result' = NoResult
    /\ traffic' = NoTraffic
    /\ scan_sent' = 0
    /\ callback' = "idle"
    /\ LET call == [NoCall EXCEPT !.timeout = timeout]
       IN  auth' =
             IF authenticate_checks = "true"
             THEN Leave(call, "true", "")
             ELSE IF authenticate_checks # "dispatch"
             THEN Leave(call, "AuthorizeError", authenticate_checks)
             ELSE IF platform = "pi4"
             THEN [call EXCEPT !.pc = "pigpio_connect", !.platform = platform]
             ELSE [call EXCEPT !.pc = "serial_open", !.platform = platform]
    /\ UNCHANGED <<outsideAuth, cfg, pi_open, receiver_armed, ser_open, ser_buf>>

\* an exception inside the try block: the handlers of lines 160-163 and
\* 252-255 turn it into AuthorizeError, then the finally block runs
Raise(call, finally, failure) ==
    [call EXCEPT !.pc = finally, !.value = "AuthorizeError", !.failure = failure]

\* _authenticate_pigpio, lines 138-144: pi = pigpio.pi(), returning False
\* when it is not connected
PigpioConnect_returning(connected) ==
    /\ auth.pc = "pigpio_connect"
    /\ pi_open' = TRUE
    /\ auth' = IF connected
               THEN [auth EXCEPT !.pc = "rx_arm"]
               ELSE [auth EXCEPT !.pc = "pigpio_finally", !.value = "false",
                                 !.failure = "pigpio_not_connected"]
    /\ UNCHANGED <<outsideAuth, cfg, now, receiver_armed, result, callback,
                   ser_open, ser_buf, scan_sent, traffic>>

\* _authenticate_pigpio, lines 138-144: pi = pigpio.pi(); AuthorizeError when
\* it is not connected
PigpioConnect(connected) ==
    /\ auth.pc = "pigpio_connect"
    /\ pi_open' = TRUE
    /\ auth' = IF connected
               THEN [auth EXCEPT !.pc = "rx_arm"]
               ELSE Raise(auth, "pigpio_finally", "pigpio_not_connected")
    /\ UNCHANGED <<outsideAuth, cfg, now, receiver_armed, result, callback,
                   ser_open, ser_buf, scan_sent, traffic>>

\* lines 147-150: receiver = rx(pi, gpio=gpio, callback=on_code_received);
\* start_time = time.time()
RxArm(armed) ==
    /\ auth.pc = "rx_arm"
    /\ IF armed
       THEN /\ receiver_armed' = TRUE
            /\ auth' = [auth EXCEPT !.pc = "pigpio_wait", !.start_time = now,
                                    !.wake = now]
       ELSE /\ UNCHANGED receiver_armed
            /\ auth' = Raise(auth, "pigpio_finally", "receiver")
    /\ UNCHANGED <<outsideAuth, cfg, now, pi_open, result, callback,
                   ser_open, ser_buf, scan_sent, traffic>>

\* the time of a delivery after the call, told apart up to the timeout
Since(t) == IF t < auth.timeout THEN t ELSE auth.timeout

\* what an equal code delivered now counts as: it came more than one poll
\* interval before the deadline, before the deadline, or less than one poll
\* interval after it
Delivered(since, clean) ==
    [traffic EXCEPT
        !.count = @ + 1,
        !.matches = @ + 1,
        !.first_at = IF @ = None THEN Some(Since(now)) ELSE @,
        !.early = @ \/ (clean /\ since + PollTicks < auth.timeout),
        !.in_time = @ \/ since < auth.timeout,
        !.tolerated = @ \/ since < auth.timeout + PollTicks]

Ignored == [traffic EXCEPT !.count = @ + 1]

\* on_code_received, lines 125-132, comparing with != instead of ==
on_code_received_unequal(code) ==
    /\ receiver_armed
    /\ callback = "idle"
    /\ traffic.count < MaxCodes
    /\ IF code # Val(get_auth_code)
       THEN /\ result' = [result EXCEPT !.authenticated = TRUE]
            /\ callback' = "set_done"
            /\ traffic' = Ignored
       ELSE /\ traffic' = Delivered(elapsed, TRUE)
            /\ UNCHANGED <<result, callback>>
    /\ UNCHANGED <<outsideAuth, cfg, now, auth, pi_open, receiver_armed,
                   ser_open, ser_buf, scan_sent>>

\* on_code_received, lines 125-132, with `not result["authenticated"]` stored
\* in place of True
on_code_received_toggling(code) ==
    /\ receiver_armed
    /\ callback = "idle"
    /\ traffic.count < MaxCodes
    /\ IF code = Val(get_auth_code)
       THEN /\ result' = [result EXCEPT !.authenticated = ~@]
            /\ callback' = "set_done"
            /\ traffic' = Delivered(elapsed, TRUE)
       ELSE /\ traffic' = Ignored
            /\ UNCHANGED <<result, callback>>
    /\ UNCHANGED <<outsideAuth, cfg, now, auth, pi_open, receiver_armed,
                   ser_open, ser_buf, scan_sent>>

\* on_code_received with the two writes of lines 131-132 exchanged
on_code_received_done_first(code) ==
    /\ receiver_armed
    /\ callback = "idle"
    /\ traffic.count < MaxCodes
    /\ IF code = Val(get_auth_code)
       THEN /\ result' = [result EXCEPT !.done = TRUE]
            /\ callback' = "set_done"
            /\ traffic' = Delivered(elapsed, TRUE)
       ELSE /\ traffic' = Ignored
            /\ UNCHANGED <<result, callback>>
    /\ UNCHANGED <<outsideAuth, cfg, now, auth, pi_open, receiver_armed,
                   ser_open, ser_buf, scan_sent>>

\* on_code_received, lines 125-131, on the thread of pigpio: the comparison
\* and the first of the two writes
on_code_received(code) ==
    /\ receiver_armed
    /\ callback = "idle"
    /\ traffic.count < MaxCodes
    /\ IF code = Val(get_auth_code)
       THEN /\ result' = [result EXCEPT !.authenticated = TRUE]
            /\ callback' = "set_done"
            /\ traffic' = Delivered(elapsed, TRUE)
       ELSE /\ traffic' = Ignored
            /\ UNCHANGED <<result, callback>>
    /\ UNCHANGED <<outsideAuth, cfg, now, auth, pi_open, receiver_armed,
                   ser_open, ser_buf, scan_sent>>

\* line 132: result["done"] = True
CallbackDone ==
    /\ callback = "set_done"
    /\ callback' = "idle"
    /\ result' = [result EXCEPT !.done = TRUE]
    /\ UNCHANGED <<outsideAuth, cfg, now, auth, pi_open, receiver_armed,
                   ser_open, ser_buf, scan_sent, traffic>>

\* the wait loop without the deadline test of lines 153-155
PigpioPoll_until_done ==
    /\ auth.pc = "pigpio_wait"
    /\ now >= auth.wake
    /\ auth' = IF result.done
               THEN [auth EXCEPT !.pc = "pigpio_return"]
               ELSE [auth EXCEPT !.wake = now + PollTicks]
    /\ UNCHANGED <<outsideAuth, cfg, now, pi_open, receiver_armed, result,
                   callback, ser_open, ser_buf, scan_sent, traffic>>

\* lines 151-156: the head of the wait loop, after the sleep has ended
PigpioPoll ==
    /\ auth.pc = "pigpio_wait"
    /\ now >= auth.wake
    /\ auth' = IF result.done \/ elapsed >= auth.timeout
               THEN [auth EXCEPT !.pc = "pigpio_return"]
               ELSE [auth EXCEPT !.wake = now + PollTicks]
    /\ UNCHANGED <<outsideAuth, cfg, now, pi_open, receiver_armed, result,
                   callback, ser_open, ser_buf, scan_sent, traffic>>

\* line 158: return result["authenticated"]
PigpioReturn ==
    /\ auth.pc = "pigpio_return"
    /\ auth' = [auth EXCEPT !.pc = "pigpio_finally",
                            !.value = IF result.authenticated THEN "true" ELSE "false"]
    /\ UNCHANGED <<outsideAuth, cfg, now, pi_open, receiver_armed, result,
                   callback, ser_open, ser_buf, scan_sent, traffic>>

\* an exception raised in the middle of the wait, lines 162-163
PigpioInterrupt ==
    /\ auth.pc = "pigpio_wait"
    /\ auth' = Raise(auth, "pigpio_finally", "")
    /\ UNCHANGED <<outsideAuth, cfg, now, pi_open, receiver_armed, result,
                   callback, ser_open, ser_buf, scan_sent, traffic>>

\* the finally block of lines 165-177 without receiver.cancel()
PigpioFinally_leaving_armed ==
    /\ auth.pc = "pigpio_finally"
    /\ pi_open' = FALSE
    /\ auth' = Leave(auth, auth.value, auth.failure)
    /\ UNCHANGED <<outsideAuth, cfg, now, receiver_armed, result, callback,
                   ser_open, ser_buf, scan_sent, traffic>>

\* lines 165-177: receiver.cancel() if there is a receiver, pi.stop() if
\* there is a pi; then the return value or the exception reaches the caller
PigpioFinally ==
    /\ auth.pc = "pigpio_finally"
    /\ receiver_armed' = FALSE
    /\ pi_open' = FALSE
    /\ auth' = Leave(auth, auth.value, auth.failure)
    /\ UNCHANGED <<outsideAuth, cfg, now, result, callback,
                   ser_open, ser_buf, scan_sent, traffic>>

\* time.sleep(): time passes up to the end of the sleep; the two writes of
\* the callback are consecutive statements and take no time
Tick ==
    /\ auth.pc \in {"pigpio_wait", "serial_settle", "serial_wait"}
    /\ now < auth.wake
    /\ callback = "idle"
    /\ now' = now + 1
    /\ UNCHANGED <<outsideAuth, cfg, auth, pi_open, receiver_armed, result,
                   callback, ser_open, ser_buf, scan_sent, traffic>>

(***************************************************************************)
(* The serial bridge: lines are sequences of characters                    *)
(***************************************************************************)
Digit == {"0", "1", "2", "3", "4", "5", "6", "7", "8", "9"}

DigitValue(c) ==
    CASE c = "0" -> 0 [] c = "1" -> 1 [] c = "2" -> 2 [] c = "3" -> 3
      [] c = "4" -> 4 [] c = "5" -> 5 [] c = "6" -> 6 [] c = "7" -> 7
      [] c = "8" -> 8 [] c = "9" -> 9

\* str.strip(): whitespace is removed from both ends
RECURSIVE lstrip(_)
lstrip(s) == IF s # <<>> /\ Head(s) = " " THEN lstrip(Tail(s)) ELSE s

RECURSIVE rstrip(_)
rstrip(s) ==
    IF s # <<>> /\ s[Len(s)] = " " THEN rstrip(SubSeq(s, 1, Len(s) - 1)) ELSE s

strip(s) == rstrip(lstrip(s))

startswith(s, c) == s # <<>> /\ Head(s) = c

RECURSIVE DecimalValue(_, _)
DecimalValue(s, acc) ==
    IF s = <<>> THEN acc
    ELSE IF Head(s) = "_" THEN DecimalValue(Tail(s), acc)
    ELSE DecimalValue(Tail(s), 10 * acc + DigitValue(Head(s)))

\* int(line): surrounding whitespace, one sign, decimal digits that single
\* underscores may separate; anything else is a ValueError (None)
int(line) ==
    LET s == strip(line)
        signed == s # <<>> /\ Head(s) \in {"+", "-"}
        body == IF signed THEN Tail(s) ELSE s
        wellFormed ==
            /\ body # <<>>
            /\ \A i \in 1..Len(body) : body[i] \in Digit \cup {"_"}
            /\ body[1] \in Digit /\ body[Len(body)] \in Digit
            /\ \A i \in 1..(Len(body) - 1) : ~(body[i] = "_" /\ body[i + 1] = "_")
    IN  IF ~wellFormed THEN None
        ELSE IF signed /\ Head(s) = "-" THEN Some(0 - DecimalValue(body, 0))
        ELSE Some(DecimalValue(body, 0))

\* the lines the bridge may send: a status line, an empty line, a line that
\* is no number, the expected code, another code, the expected code written
\* with a sign and blanks
Lines ==
    {<<"#", "o", "k">>, <<>>, <<"a", "b">>, <<"2", "1">>, <<"2", "2">>,
     <<" ", "+", "2", "1", " ">>}

\* _authenticate_arduino, lines 200-211: ser = serial.Serial(port, 9600,
\* timeout=0.5); time.sleep(2)
SerialOpen(opened) ==
    /\ auth.pc = "serial_open"
    /\ get_arduino_port = "port"
    /\ IF opened
       THEN /\ ser_open' = TRUE
            /\ auth' = [auth EXCEPT !.pc = "serial_settle",
                                    !.wake = now + SettleTicks]
       ELSE /\ UNCHANGED ser_open
            /\ auth' = Leave(auth, "AuthorizeError", "serial_open")
    /\ UNCHANGED <<outsideAuth, cfg, now, pi_open, receiver_armed, result,
                   callback, ser_buf, scan_sent, traffic>>

\* the bridge writes a line; the session waits for lines from SCAN on
LineArrives(line) ==
    /\ ser_open
    /\ traffic.count < MaxCodes
    /\ ser_buf' = Append(ser_buf, line)
    /\ traffic' =
         IF int(line) = get_auth_code /\ auth.pc \in {"serial_scan", "serial_wait"}
         THEN [Delivered(IF auth.pc = "serial_wait" THEN elapsed ELSE 0,
                         ser_buf = <<>>)
                 EXCEPT !.after_scan = @ \/ auth.pc = "serial_wait"]
         ELSE IF int(line) = get_auth_code
         THEN [Ignored EXCEPT !.before_drain = @ \/ auth.pc = "serial_settle",
                              !.first_at = IF @ = None THEN Some(Since(now)) ELSE @]
         ELSE Ignored
    /\ UNCHANGED <<outsideAuth, cfg, now, auth, pi_open, receiver_armed,
                   result, callback, ser_open, scan_sent>>

\* lines 214-216 left out: the buffered lines stay in the buffer
SerialDrain_keeping ==
    /\ auth.pc = "serial_settle"
    /\ now >= auth.wake
    /\ auth' = [auth EXCEPT !.pc = "serial_scan"]
    /\ UNCHANGED <<outsideAuth, cfg, now, pi_open, receiver_armed, result,
                   callback, ser_open, ser_buf, scan_sent, traffic>>

\* lines 214-216: while ser.in_waiting > 0: ser.readline()
SerialDrain ==
    /\ auth.pc = "serial_settle"
    /\ now >= auth.wake
    /\ ser_buf' = <<>>
    /\ auth' = [auth EXCEPT !.pc = "serial_scan"]
    /\ UNCHANGED <<outsideAuth, cfg, now, pi_open, receiver_armed, result,
                   callback, ser_open, scan_sent, traffic>>

\* lines 219-224: ser.write(b'SCAN\n'); ser.flush(); start_time = time.time()
SerialScan ==
    /\ auth.pc = "serial_scan"
    /\ scan_sent' = scan_sent + 1
    /\ auth' = [auth EXCEPT !.pc = "serial_wait", !.start_time = now,
                            !.wake = now]
    /\ UNCHANGED <<outsideAuth, cfg, now, pi_open, receiver_armed, result,
                   callback, ser_open, ser_buf, traffic>>

Sleep == [auth EXCEPT !.wake = now + PollTicks]

\* a line the wait loop read and passed over
Skipped == [traffic EXCEPT !.skipped = @ + 1]

\* lines 225-250 with the comparison of line 244 left out: any number ends
\* the wait
SerialPoll_any_number ==
    /\ auth.pc = "serial_wait"
    /\ now >= auth.wake
    /\ IF elapsed >= auth.timeout
       THEN /\ auth' = [auth EXCEPT !.pc = "serial_finally", !.value = "false"]
            /\ UNCHANGED <<ser_buf, traffic>>
       ELSE IF ser_buf # <<>>
       THEN LET line == strip(Head(ser_buf))
            IN  /\ ser_buf' = Tail(ser_buf)
                /\ IF startswith(line, "#")
                   THEN auth' = [auth EXCEPT !.wake = now] /\ traffic' = Skipped
                   ELSE IF line # <<>> /\ int(line) # None
                   THEN /\ auth' = [auth EXCEPT !.pc = "serial_finally", !.value = "true"]
                        /\ UNCHANGED traffic
                   ELSE auth' = Sleep /\ traffic' = Skipped
       ELSE /\ auth' = Sleep
            /\ UNCHANGED <<ser_buf, traffic>>
    /\ UNCHANGED <<outsideAuth, cfg, now, pi_open, receiver_armed, result,
                   callback, ser_open, scan_sent>>

\* lines 225-250: one pass of the wait loop, after the sleep has ended
SerialPoll ==
    /\ auth.pc = "serial_wait"
    /\ now >= auth.wake
    /\ IF elapsed >= auth.timeout
       THEN /\ auth' = [auth EXCEPT !.pc = "serial_finally", !.value = "false"]
            /\ UNCHANGED <<ser_buf, traffic>>
       ELSE IF ser_buf # <<>>
       THEN LET line == strip(Head(ser_buf))
            IN  /\ ser_buf' = Tail(ser_buf)
                /\ IF startswith(line, "#")
                   THEN auth' = [auth EXCEPT !.wake = now] /\ traffic' = Skipped
                   ELSE IF line # <<>> /\ int(line) = get_auth_code
                   THEN /\ auth' = [auth EXCEPT !.pc = "serial_finally", !.value = "true"]
                        /\ UNCHANGED traffic
                   ELSE auth' = Sleep /\ traffic' = Skipped
       ELSE /\ auth' = Sleep
            /\ UNCHANGED <<ser_buf, traffic>>
    /\ UNCHANGED <<outsideAuth, cfg, now, pi_open, receiver_armed, result,
                   callback, ser_open, scan_sent>>

\* an I/O error of the open port, lines 252-255
SerialInterrupt ==
    /\ auth.pc \in {"serial_settle", "serial_scan", "serial_wait"}
    /\ auth' = Raise(auth, "serial_finally", "")
    /\ UNCHANGED <<outsideAuth, cfg, now, pi_open, receiver_armed, result,
                   callback, ser_open, ser_buf, scan_sent, traffic>>

\* lines 257-262: ser.close(); then the return value or the exception
\* reaches the caller
SerialFinally ==
    /\ auth.pc = "serial_finally"
    /\ ser_open' = FALSE
    /\ ser_buf' = <<>>
    /\ auth' = Leave(auth, auth.value, auth.failure)
    /\ UNCHANGED <<outsideAuth, cfg, now, pi_open, receiver_armed, result,
                   callback, scan_sent, traffic>>

(***************************************************************************)
(* lib/_433.py: the pulse-train decoder rx, and the encoder it is fed by   *)
(***************************************************************************)
\* a pigpio tick: microseconds in 32 bits, kept as two 16-bit halves
Tick32(hi, lo) == [hi |-> hi, lo |-> lo]

TickZero == Tick32(0, 0)

\* the tick d microseconds after t, wrapping at 2^32
TickAfter(t, d) ==
    Tick32((t.hi + ((t.lo + d) \div 65536)) % 65536, (t.lo + d) % 65536)

\* pigpio.tickDiff(t1, t2): (t2 - t1) mod 2^32; the intervals of the model
\* are far below 2^31
tickDiff(t1, t2) ==
    LET borrow == IF t2.lo < t1.lo THEN 1 ELSE 0
    IN  ((t2.hi - t1.hi - borrow) % 65536) * 65536
            + (t2.lo - t1.lo + borrow * 65536)

\* rx.__init__, lines 45-52
NewRx ==
    [in_code |-> FALSE, edge |-> 0, code |-> 0, gap |-> 0, t0 |-> 0, t1 |-> 0,
     bits |-> 0, last_edge_tick |-> TickZero]

\* lines 64-66 and 105-107 without the test of lines 63 and 104
Emission_unchecked(r) ==
    <<[code |-> r.code, bits |-> r.bits, gap |-> r.gap, t0 |-> r.t0, t1 |-> r.t1]>>

\* lines 63-66 and 104-107: the callback is invoked with the decoded code
Emission(r) ==
    IF MinBits <= r.bits /\ r.bits <= MaxBits
    THEN <<[code |-> r.code, bits |-> r.bits, gap |-> r.gap,
            t0 |-> r.t0, t1 |-> r.t1]>>
    ELSE <<>>

\* _cbf, lines 86-108: an edge while in_code
cbf_in_code(r, edge_len) ==
    LET r1 == IF r.edge = 0 THEN [r EXCEPT !.t0 = edge_len]
              ELSE IF r.edge = 1 THEN [r EXCEPT !.t1 = edge_len]
              ELSE r
        r2 == IF r.edge % 2 = 1
              THEN [r1 EXCEPT !.code = 2 * r1.code + (IF r1.t0 < r1.t1 THEN 1 ELSE 0),
                              !.bits = r1.bits + 1]
              ELSE r1
        r3 == [r2 EXCEPT !.edge = r2.edge + 1]
    IN  IF edge_len > LongGap
        THEN [rx |-> [r3 EXCEPT !.in_code = FALSE], emit |-> Emission(r3)]
        ELSE [rx |-> r3, emit |-> <<>>]

\* _cbf without the test of line 62: the watchdog emits whatever is held
cbf_watchdog_unguarded(r, level, tick) ==
    IF level = 2
    THEN [rx |-> [r EXCEPT !.in_code = FALSE], emit |-> Emission(r)]
    ELSE LET edge_len == IF r.last_edge_tick # TickZero
                         THEN tickDiff(r.last_edge_tick, tick) ELSE 0
             r0 == [r EXCEPT !.last_edge_tick = tick]
         IN  IF ~r.in_code
             THEN IF edge_len > LongGap
                  THEN [rx |-> [r0 EXCEPT !.in_code = TRUE, !.edge = 0, !.code = 0,
                                          !.gap = edge_len, !.bits = 0],
                        emit |-> <<>>]
                  ELSE [rx |-> r0, emit |-> <<>>]
             ELSE cbf_in_code(r0, edge_len)

\* _cbf, lines 59-108: the decoder state after the event and what it emits.
\* level 2 is the watchdog; tick 0 counts as "no edge before" (line 70).
cbf(r, level, tick) ==
    IF level = 2
    THEN IF r.in_code
         THEN [rx |-> [r EXCEPT !.in_code = FALSE], emit |-> Emission(r)]
         ELSE [rx |-> r, emit |-> <<>>]
    ELSE LET edge_len == IF r.last_edge_tick # TickZero
                         THEN tickDiff(r.last_edge_tick, tick) ELSE 0
             r0 == [r EXCEPT !.last_edge_tick = tick]
         IN  IF ~r.in_code
             THEN IF edge_len > LongGap
                  THEN [rx |-> [r0 EXCEPT !.in_code = TRUE, !.edge = 0, !.code = 0,
                                          !.gap = edge_len, !.bits = 0],
                        emit |-> <<>>]
                  ELSE [rx |-> r0, emit |-> <<>>]
             ELSE cbf_in_code(r0, edge_len)

\* bit i (1 = most significant) of an n-bit code
RECURSIVE ShiftRight(_, _)
ShiftRight(code, k) == IF k = 0 THEN code ELSE ShiftRight(code \div 2, k - 1)

BitOf(code, n, i) == ShiftRight(code, n - i) % 2

\* The encoder (class tx) is in no file of src/.  By the specification a
\* code is sent as `repeats` copies of: the leader gap, then for each bit,
\* MSB first, a short pulse followed by a short low (t0) for 0 or a long low
\* (t1) for 1, then the trailer gap.  The levels and durations of one copy:
BitSegments(code, n, p) ==
    [j \in 1..(2 * n) |->
        IF j % 2 = 1 THEN [level |-> 1, len |-> p.pulse]
        ELSE [level |-> 0, len |-> IF BitOf(code, n, j \div 2) = 1 THEN p.t1 ELSE p.t0]]

Train(code, n, p) ==
    <<[level |-> 0, len |-> p.gap]>> \o BitSegments(code, n, p)
        \o <<[level |-> 0, len |-> p.gap]>>

\* the time the segments lo..hi take on the line
RECURSIVE Duration(_, _, _)
Duration(segments, lo, hi) ==
    IF lo > hi THEN 0
    ELSE IF lo = hi THEN segments[lo].len
    ELSE LET mid == (lo + hi) \div 2
         IN  Duration(segments, lo, mid) + Duration(segments, mid + 1, hi)

\* the edges the receiver pin sees: one at every change of level, stamped
\* with the tick at which the new level begins
EdgesAt(segments, at, tick) ==
    [e \in 1..Len(at) |->
        [level |-> segments[at[e]].level,
         tick |-> TickAfter(tick, Duration(segments, 1, at[e] - 1))]]

EdgesOf(segments, level, tick) ==
    LET changes(j) ==
            segments[j].level # (IF j = 1 THEN level ELSE segments[j - 1].level)
    IN  EdgesAt(segments, SelectSeq([j \in 1..Len(segments) |-> j], changes), tick)

\* the edges of k copies of a train sent back to back, the line being at
\* `level` when the first copy begins at `tick`
RECURSIVE Repeat(_, _, _, _)
Repeat(train, k, level, tick) ==
    IF k = 0 THEN <<>>
    ELSE EdgesOf(train, level, tick)
         \o Repeat(train, k - 1, train[Len(train)].level,
                   TickAfter(tick, Duration(train, 1, Len(train))))

\* pulse-train parameters: the low of a 0 is no longer than the pulse, the
\* low of a 1 is longer, the gap is a long interval
PulseTrainParams == {[gap |-> 9000, t0 |-> 300, t1 |-> 900, pulse |-> 300]}

\* the line is high before the burst if the receiver has seen activity (the
\* burst then begins with a falling edge), or has been low all along
CodecInits ==
    {[code |-> c, bits |-> n, repeats |-> k, p |-> p, primed |-> b, start |-> t]
        : c \in 0..(2 ^ MinBits - 1), n \in MinBits..MaxSentBits,
          k \in 1..MaxRepeats, p \in PulseTrainParams, b \in BOOLEAN,
          t \in {Tick32(0, 1000), Tick32(65535, 65536 - 2000)}}
    \cup
    \* bursts of other senders, one bit too short or one bit too long; the
    \* long one carries zeros, which keeps the decoder's code a small number
    {[code |-> c, bits |-> MinBits - 1, repeats |-> k, p |-> p, primed |-> b,
      start |-> Tick32(0, 1000)]
        : c \in {0, 2 ^ (MinBits - 1) - 1}, k \in 1..MaxRepeats,
          p \in PulseTrainParams, b \in BOOLEAN}
    \cup
    {[code |-> 0, bits |-> MaxBits + 1, repeats |-> k, p |-> p, primed |-> b,
      start |-> Tick32(0, 1000)]
        : k \in 1..MaxRepeats, p \in PulseTrainParams, b \in BOOLEAN}

NoBurst ==
    [code |-> 0, bits |-> 0, repeats |-> 0, p |-> [gap |-> 0, t0 |-> 0, t1 |-> 0, pulse |-> 0],
     primed |-> FALSE, start |-> TickZero]

\* rx.__init__, line 57: self._cb = pi.callback(gpio, EITHER_EDGE, self._cbf)
\* and lines 54-55: set_mode and set_glitch_filter; no call of set_watchdog,
\* the pin's watchdog stays off as pigpio starts it
NewCb == [cb |-> TRUE, cancels |-> 0, detaches |-> 0, watchdog |-> FALSE]

\* the receiver on a pin whose watchdog is on: pigpiod keeps a pin's
\* watchdog for all its clients, and rx does not turn it off
Watched == [NewCb EXCEPT !.watchdog = TRUE]

\* rx.cancel without lines 112-114: the callback stays registered
cancel_keeping_callback(c) == c

\* rx.cancel, lines 110-114: if self._cb: self._cb.cancel(); self._cb = None
cancel(c) ==
    IF c.cb THEN [c EXCEPT !.cb = FALSE, !.detaches = @ + 1] ELSE c

\* receiver.cancel() is called
RxCancel ==
    /\ rx_cb.cancels < MaxCancels
    /\ rx_cb' = [cancel(rx_cb) EXCEPT !.cancels = @ + 1]
    /\ UNCHANGED <<outsideCodec, cfg, rx_state, emitted, pending, sent, silence>>

\* pigpio calls only the callbacks registered with it: an edge or a watchdog
\* event after the cancel reaches nobody
Unheard ==
    /\ ~rx_cb.cb
    /\ IF pending # <<>>
       THEN pending' = Tail(pending) /\ UNCHANGED silence
       ELSE /\ rx_cb.watchdog
            /\ silence = "begins" /\ silence' = "watchdog" /\ UNCHANGED pending
    /\ UNCHANGED <<outsideCodec, cfg, rx_state, rx_cb, emitted, sent>>

\* the decoder is called with the next edge of the burst
FeedEdge ==
    /\ pending # <<>>
    /\ rx_cb.cb
    /\ LET e == Head(pending)
           out == cbf(rx_state, e.level, e.tick)
       IN  /\ rx_state' = out.rx
           /\ emitted' = emitted \o out.emit
    /\ pending' = Tail(pending)
    /\ UNCHANGED <<outsideCodec, cfg, rx_cb, sent, silence>>

\* after the last edge the line stays silent: the watchdog event, if the pin
\* has a watchdog
Watchdog ==
    /\ pending = <<>>
    /\ silence = "begins"
    /\ rx_cb.cb
    /\ rx_cb.watchdog
    /\ LET out == cbf(rx_state, 2, TickZero)
       IN  /\ rx_state' = out.rx
           /\ emitted' = emitted \o out.emit
    /\ silence' = "watchdog"
    /\ UNCHANGED <<outsideCodec, cfg, rx_cb, sent, pending>>

CodecQuiet ==
    /\ rx_state = NewRx
    /\ rx_cb = NewCb
    /\ emitted = <<>>
    /\ pending = <<>>
    /\ sent = NoBurst
    /\ silence = "none"

(***************************************************************************)
(* pyroman.py: the web console, on its own state dict and its own sender   *)
(***************************************************************************)
\* load_direktzuender_status, lines 59-76: the list it returns and the file
\* it leaves.  A file that exists and can be read is returned as it is; in
\* every other case a default list is generated from the config and saved.
load_direktzuender_status(file, readOk, writeOk) ==
    IF file.exists /\ readOk
    THEN [list |-> file.list, file |-> file]
    ELSE IF cfg.valid
    THEN LET status_list == NewEntries(1, cfg.anzahl)
         IN  [list |-> status_list,
              file |-> save_full_status(file, status_list, writeOk)]
    ELSE [list |-> <<>>, file |-> file]

\* whether load_direktzuender_status writes the file
WebLoadSaves(readOk) == ~(status_file.exists /\ readOk) /\ cfg.valid

WebLoadWriteOutcomes(readOk) == IF WebLoadSaves(readOk) THEN BOOLEAN ELSE {TRUE}

\* outcome: "none" while no fire message has been handled, "fired" for the
\* channel_fired broadcast, "error" for an error broadcast with its message,
\* "silent" when handle_fire returns without any broadcast, "raised" when an
\* exception leaves handle_fire
WebIdle == [pc |-> "idle", kind |-> "", id |-> 0, kanal |-> 0, code |-> None,
            tx |-> <<>>, outcome |-> "none", msg |-> ""]

WebError(msg) == [WebIdle EXCEPT !.outcome = "error", !.msg = msg]

WebSilent == [WebIdle EXCEPT !.outcome = "silent"]

WebRaised == [WebIdle EXCEPT !.outcome = "raised"]

\* get_rf_sender, lines 104-114
web_get_rf_sender(connected, txOk) == web_rf_sender \/ RFSenderInit(connected, txOk)

WebSenderOutcomes == IF web_rf_sender THEN {<<TRUE, TRUE>>} ELSE BOOLEAN \X BOOLEAN

\* lines 210-212 and 239-241: if code: sender = get_rf_sender(); if sender:
WebAcquireSender(kind, id, kanal, code) ==
    IF code = None
    THEN /\ web_call' = WebSilent
         /\ UNCHANGED web_rf_sender
    ELSE \E hw \in WebSenderOutcomes :
            /\ web_rf_sender' = web_get_rf_sender(hw[1], hw[2])
            /\ web_call' =
                 IF web_rf_sender'
                 THEN [WebIdle EXCEPT !.pc = "send", !.kind = kind, !.id = id,
                                      !.kanal = kanal, !.code = code]
                 ELSE WebSilent

\* the gates of handle_fire, lines 195-201
web_gate ==
    IF ~web.authorized THEN "Nicht autorisiert"
    ELSE IF ~web.fire_enabled THEN "Feuer nicht freigegeben"
    ELSE ""

\* handle_fire for target_type 'koffer', up to sender.send (lines 195-212)
HandleFireKoffer(koffer_id, kanal_nr) ==
    /\ web_call.pc = "idle"
    /\ IF web_gate # ""
       THEN /\ web_call' = WebError(web_gate)
            /\ UNCHANGED web_rf_sender
       ELSE WebAcquireSender("koffer", koffer_id, kanal_nr,
                             get_channel_code(koffer_id, kanal_nr))
    /\ UNCHANGED <<outsideWeb, cfg, web, status_file>>

\* handle_fire for target_type 'direktzuender', up to sender.send
\* (lines 195-201 and 229-241)
HandleFireDirektzuender(nr) ==
    /\ web_call.pc = "idle"
    /\ IF web_gate # ""
       THEN /\ web_call' = WebError(web_gate)
            /\ UNCHANGED <<web_rf_sender, status_file>>
       ELSE \E readOk \in ReadOutcomes : \E writeOk \in WebLoadWriteOutcomes(readOk) :
              LET l == load_direktzuender_status(status_file, readOk, writeOk)
              IN  /\ status_file' = l.file
                  /\ IF ~is_available_in(l.list, nr)
                     THEN /\ web_call' = WebError("Direktzuender nicht verfuegbar")
                          /\ UNCHANGED web_rf_sender
                     ELSE WebAcquireSender("direktzuender", nr, 0,
                                           get_direktzuender_code(nr))
    /\ UNCHANGED <<outsideWeb, cfg, web>>

\* lines 213 and 242: sender.send(code), outside any try block
HandleFireSend(sendOk) ==
    /\ web_call.pc = "send"
    /\ web_call' =
         IF sendOk
         THEN [web_call EXCEPT !.pc = "mark", !.tx = Append(@, Val(web_call.code))]
         ELSE WebRaised
    /\ UNCHANGED <<outsideWeb, cfg, web, web_rf_sender, status_file>>

\* lines 216-226 and 245-253: the fired flag and the channel_fired broadcast
HandleFireMark ==
    /\ web_call.pc = "mark"
    /\ web' = IF web_call.kind = "koffer"
              THEN [web EXCEPT !.koffer_states = @ \cup {<<web_call.id, web_call.kanal>>}]
              ELSE [web EXCEPT !.direktzuender_states = @ \cup {web_call.id}]
    /\ web_call' = [WebIdle EXCEPT !.outcome = "fired"]
    /\ UNCHANGED <<outsideWeb, cfg, web_rf_sender, status_file>>

\* handle_reset, lines 255-280
HandleReset(kind, id, kanal) ==
    /\ web' = IF kind = "koffer"
              THEN [web EXCEPT !.koffer_states = @ \ {<<id, kanal>>}]
              ELSE [web EXCEPT !.direktzuender_states = @ \ {id}]
    /\ web' # web
    /\ UNCHANGED <<outsideWeb, cfg, web_rf_sender, web_call, status_file>>

\* handle_reset_all, lines 282-287
HandleResetAll ==
    /\ web' = [web EXCEPT !.koffer_states = {}, !.direktzuender_states = {}]
    /\ web' # web
    /\ UNCHANGED <<outsideWeb, cfg, web_rf_sender, web_call, status_file>>

\* handle_set_fire_enabled, lines 289-298
HandleSetFireEnabled(enabled) ==
    /\ web.fire_enabled # enabled
    /\ web' = [web EXCEPT !.fire_enabled = enabled]
    /\ UNCHANGED <<outsideWeb, cfg, web_rf_sender, web_call, status_file>>

\* what authenticate() can give handle_auth_start
AuthOutcomes ==
    IF ~get_auth_check THEN {"true"}
    ELSE IF ~cfg.valid THEN {"AuthorizeError"}
    ELSE {"true", "false", "AuthorizeError"}

\* handle_auth_start, lines 300-328, with the outcome of authenticate()
HandleAuthStart(outcome) ==
    /\ outcome \in AuthOutcomes
    /\ outcome = "true"
    /\ ~web.authorized
    /\ web' = [web EXCEPT !.authorized = TRUE]
    /\ UNCHANGED <<outsideWeb, cfg, web_rf_sender, web_call, status_file>>

\* set_direktzuender_available, lines 91-98, called by
\* api_set_direktzuender_available
WebSetAvailable(nr, available) ==
    /\ \E readOk \in ReadOutcomes : \E writeOk1 \in WebLoadWriteOutcomes(readOk) :
       \E writeOk2 \in BOOLEAN :
          LET l == load_direktzuender_status(status_file, readOk, writeOk1)
          IN  status_file' = save_full_status(l.file, set_available_in(l.list, nr, available),
                                              writeOk2)
    /\ status_file' # status_file
    /\ UNCHANGED <<outsideWeb, cfg, web, web_rf_sender, web_call>>

\* the state dict of lines 37-42, after main() (lines 409-423)
WebStart ==
    [authorized |-> cfg.valid /\ ~cfg.auth_required, fire_enabled |-> FALSE,
     koffer_states |-> {}, direktzuender_states |-> {}]

WebQuiet ==
    /\ web = [authorized |-> FALSE, fire_enabled |-> FALSE,
              koffer_states |-> {}, direktzuender_states |-> {}]
    /\ web_rf_sender = FALSE
    /\ web_call = WebIdle

(***************************************************************************)
(* fire_control.py and pyroman.handle_fire side by side.  A request is     *)
(* given to the console and then to the Fire Orchestrator, each on its own *)
(* state and its own sender; both use the one direktzuender_status.json.   *)
(* A request runs to its end in one step, and both get the same answers    *)
(* from the outside: e.readOk and e.writeOk for the status file,           *)
(* e.connected for pigpiod when a new RFSender is made, e.sendOk for send. *)
(***************************************************************************)
Envs == [readOk : BOOLEAN, writeOk : BOOLEAN, connected : BOOLEAN, sendOk : BOOLEAN]

\* a request for a channel of a group reads no file
SenderEnvs == {e \in Envs : e.readOk /\ e.writeOk}

\* set_direktzuender_available uses no sender
FileEnvs == {e \in Envs : e.connected /\ e.sendOk}

\* what a request leaves: whether it was accepted, the codes it transmitted,
\* the status file and the cached sender
Answer(ok, tx, file, sender) == [ok |-> ok, tx |-> tx, file |-> file, sender |-> sender]

\* fire_control.fire_koffer, lines 63-98
fire_koffer(koffer_id, kanal_nr, file, e) ==
    LET code   == get_channel_code(koffer_id, kanal_nr)
        sender == get_rf_sender(e.connected, TRUE)
    IN  IF check_authorization # "" THEN Answer(FALSE, <<>>, file, rf_sender)
        ELSE IF code = None THEN Answer(FALSE, <<>>, file, rf_sender)
        ELSE IF ~sender THEN Answer(FALSE, <<>>, file, FALSE)
        ELSE IF ~e.sendOk THEN Answer(FALSE, <<>>, file, TRUE)
        ELSE Answer(TRUE, <<Val(code)>>, file, TRUE)

\* fire_control.fire_direktzuender, lines 104-142
fire_direktzuender(nr, file, e) ==
    LET l      == load_full_status(file, e.readOk, e.writeOk)
        code   == get_direktzuender_code(nr)
        sender == get_rf_sender(e.connected, TRUE)
    IN  IF check_authorization # "" THEN Answer(FALSE, <<>>, file, rf_sender)
        ELSE IF ~is_available_in(l.list, nr) THEN Answer(FALSE, <<>>, l.file, rf_sender)
        ELSE IF code = None THEN Answer(FALSE, <<>>, l.file, rf_sender)
        ELSE IF ~sender THEN Answer(FALSE, <<>>, l.file, FALSE)
        ELSE IF ~e.sendOk THEN Answer(FALSE, <<>>, l.file, TRUE)
        ELSE Answer(TRUE, <<Val(code)>>, l.file, TRUE)

\* pyroman.handle_fire for target_type 'koffer', lines 195-226: accepted is
\* the channel_fired broadcast
handle_fire_koffer(koffer_id, kanal_nr, file, e) ==
    LET code   == get_channel_code(koffer_id, kanal_nr)
        sender == web_get_rf_sender(e.connected, TRUE)
    IN  IF web_gate # "" THEN Answer(FALSE, <<>>, file, web_rf_sender)
        ELSE IF code = None THEN Answer(FALSE, <<>>, file, web_rf_sender)
        ELSE IF ~sender THEN Answer(FALSE, <<>>, file, FALSE)
        ELSE IF ~e.sendOk THEN Answer(FALSE, <<>>, file, TRUE)
        ELSE Answer(TRUE, <<Val(code)>>, file, TRUE)

\* pyroman.handle_fire for target_type 'direktzuender', lines 195-201 and
\* 228-253
handle_fire_direktzuender(nr, file, e) ==
    LET l      == load_direktzuender_status(file, e.readOk, e.writeOk)
        code   == get_direktzuender_code(nr)
        sender == web_get_rf_sender(e.connected, TRUE)
    IN  IF web_gate # "" THEN Answer(FALSE, <<>>, file, web_rf_sender)
        ELSE IF ~is_available_in(l.list, nr) THEN Answer(FALSE, <<>>, l.file, web_rf_sender)
        ELSE IF code = None THEN Answer(FALSE, <<>>, l.file, web_rf_sender)
        ELSE IF ~sender THEN Answer(FALSE, <<>>, l.file, FALSE)
        ELSE IF ~e.sendOk THEN Answer(FALSE, <<>>, l.file, TRUE)
        ELSE Answer(TRUE, <<Val(code)>>, l.file, TRUE)

\* the request as each side has answered it
WebAnswered(w) ==
    [WebIdle EXCEPT !.outcome = IF w.ok THEN "fired" ELSE "error", !.tx = w.tx]

FireAnswered(f) ==
    [Idle EXCEPT !.result = IF f.ok THEN "ok" ELSE "failed", !.tx = f.tx]

\* both sides after the request: w is the console's answer, f the
\* Orchestrator's
PairAnswered(kind, id, kanal, w, f) ==
    /\ web' = IF ~w.ok THEN web
              ELSE IF kind = "koffer"
              THEN [web EXCEPT !.koffer_states = @ \cup {<<id, kanal>>}]
              ELSE [web EXCEPT !.direktzuender_states = @ \cup {id}]
    /\ web_rf_sender' = w.sender
    /\ web_call' = WebAnswered(w)
    /\ koffer_states' = IF f.ok /\ kind = "koffer" THEN set_koffer_fired(id, kanal)
                        ELSE koffer_states
    /\ direktzuender_states' = IF f.ok /\ kind # "koffer" THEN set_direktzuender_fired(id)
                               ELSE direktzuender_states
    /\ rf_sender' = f.sender
    /\ fire_call' = FireAnswered(f)
    /\ status_file' = f.file
    /\ UNCHANGED <<cfg, authorized, fire_enabled, authVars, codecVars, sessVars>>

\* the Orchestrator takes the request after the console, on the file the
\* console has left
PairThen(kind, id, kanal, e, w) ==
    PairAnswered(kind, id, kanal, w,
                 IF kind = "koffer" THEN fire_koffer(id, kanal, w.file, e)
                 ELSE fire_direktzuender(id, w.file, e))

\* a fire request for a channel of a group, to both
PairFireKoffer(koffer_id, kanal_nr, e) ==
    PairThen("koffer", koffer_id, kanal_nr, e,
             handle_fire_koffer(koffer_id, kanal_nr, status_file, e))

\* a fire request for a standalone igniter, to both
PairFireDirektzuender(nr, e) ==
    PairThen("direktzuender", nr, 0, e, handle_fire_direktzuender(nr, status_file, e))

\* state.reset_koffer / reset_direktzuender (state.py:86-96, 124-132) and
\* pyroman.handle_reset (lines 255-280)
PairReset(kind, id, kanal) ==
    /\ IF kind = "koffer"
       THEN /\ koffer_states' = koffer_states \ {<<id, kanal>>}
            /\ web' = [web EXCEPT !.koffer_states = @ \ {<<id, kanal>>}]
            /\ UNCHANGED direktzuender_states
       ELSE /\ direktzuender_states' = direktzuender_states \ {id}
            /\ web' = [web EXCEPT !.direktzuender_states = @ \ {id}]
            /\ UNCHANGED koffer_states
    /\ UNCHANGED <<cfg, authorized, fire_enabled, status_file, rf_sender, fire_call,
                   web_rf_sender, web_call, authVars, codecVars, sessVars>>

\* reset_all with the groups' flags only
PairResetAll_koffer_only ==
    /\ koffer_states' = {}
    /\ web' = [web EXCEPT !.koffer_states = {}]
    /\ UNCHANGED <<cfg, authorized, fire_enabled, direktzuender_states, status_file,
                   rf_sender, fire_call, web_rf_sender, web_call, authVars, codecVars,
                   sessVars>>

\* state.reset_all (state.py:138-142) and pyroman.handle_reset_all (lines
\* 282-287)
PairResetAll ==
    /\ koffer_states' = {}
    /\ direktzuender_states' = {}
    /\ web' = [web EXCEPT !.koffer_states = {}, !.direktzuender_states = {}]
    /\ UNCHANGED <<cfg, authorized, fire_enabled, status_file, rf_sender, fire_call,
                   web_rf_sender, web_call, authVars, codecVars, sessVars>>

\* state.set_fire_enabled and pyroman.handle_set_fire_enabled (lines 289-298)
PairSetFireEnabled(enabled) ==
    /\ fire_enabled' = enabled
    /\ web' = [web EXCEPT !.fire_enabled = enabled]
    /\ UNCHANGED <<cfg, authorized, koffer_states, direktzuender_states, status_file,
                   rf_sender, fire_call, web_rf_sender, web_call, authVars, codecVars,
                   sessVars>>

\* set_direktzuender_available of pyroman.py (lines 91-98), then of
\* direktzuender_wartung.py (lines 128-142), on the one file
PairSetAvailable(nr, available, e) ==
    LET wl == load_direktzuender_status(status_file, e.readOk, e.writeOk)
        wf == save_full_status(wl.file, set_available_in(wl.list, nr, available),
                               e.writeOk)
        fl == load_full_status(wf, e.readOk, e.writeOk)
    IN  /\ status_file' = save_full_status(fl.file,
                                set_available_in(fl.list, nr, available), e.writeOk)
        /\ UNCHANGED <<cfg, authorized, fire_enabled, koffer_states,
                       direktzuender_states, rf_sender, fire_call, web,
                       web_rf_sender, web_call, authVars, codecVars, sessVars>>

(***************************************************************************)
(* pyroman.py: auth_start requests.  Every WebSocket connection is served  *)
(* by its own thread (app.run, line 429); within a connection the messages *)
(* are handled one after the other (lines 160-167).                        *)
(***************************************************************************)
Clients == 1..MaxClients

\* notice and text: the last message the server sent to this client
NoSession ==
    [pc |-> "idle", holds |-> FALSE, value |-> "none", notice |-> "state_update",
     text |-> ""]

\* the sessions that have armed the transport of this host and not yet
\* cleaned up
Owners == {c \in Clients : ws_auth[c].holds}

\* websocket, lines 160-167, handle_ws_message, lines 188-189, and
\* handle_auth_start, lines 302-306: the message is taken from the
\* connection and auth_waiting is sent
WsAuthStart(c) ==
    /\ ws_auth[c].pc = "idle"
    /\ ws_auth' = [ws_auth EXCEPT ![c].pc = "authenticate",
                                  ![c].notice = "auth_waiting", ![c].text = ""]
    /\ UNCHANGED <<outsideSessions, cfg, web, host_platform>>

\* authenticate(), authorize.py lines 69-97, up to the call of the transport
SessionAuthenticate(c) ==
    /\ ws_auth[c].pc = "authenticate"
    /\ ws_auth' =
         IF ~get_auth_check
         THEN [ws_auth EXCEPT ![c].pc = "reply", ![c].value = "true"]
         ELSE IF ~cfg.valid \/ get_auth_code = None
         THEN [ws_auth EXCEPT ![c].pc = "reply", ![c].value = "AuthorizeError"]
         ELSE [ws_auth EXCEPT ![c].pc = "arming"]
    /\ UNCHANGED <<outsideSessions, cfg, web, host_platform>>

\* _authenticate_pigpio, lines 138-150: pigpio.pi() and rx(pi, gpio, callback);
\* _authenticate_arduino, line 207: serial.Serial(port, 9600).  Neither
\* looks at a session already running; whether the library lets a second
\* one in is its choice.
SessionArm(c, armed) ==
    /\ ws_auth[c].pc = "arming"
    /\ ws_auth' =
         IF armed
         THEN [ws_auth EXCEPT ![c].pc = "waiting", ![c].holds = TRUE]
         ELSE [ws_auth EXCEPT ![c].pc = "reply", ![c].value = "AuthorizeError"]
    /\ UNCHANGED <<outsideSessions, cfg, web, host_platform>>

\* _authenticate_pigpio, lines 109-110: import pigpio; from lib._433 import rx;
\* _authenticate_arduino, line 198: import serial.  The module is not
\* installed on this host: the ImportError is raised outside every try block.
SessionImportFails(c) ==
    /\ ws_auth[c].pc = "arming"
    /\ ws_auth' = [ws_auth EXCEPT ![c].pc = "reply", ![c].value = "ImportError"]
    /\ UNCHANGED <<outsideSessions, cfg, web, host_platform>>

\* the wait loop ends: match, timeout or exception (lines 151-163, 225-255)
SessionEnds(c, value) ==
    /\ ws_auth[c].pc = "waiting"
    /\ ws_auth' = [ws_auth EXCEPT ![c].pc = "cleanup", ![c].value = value]
    /\ UNCHANGED <<outsideSessions, cfg, web, host_platform>>

\* the finally blocks, lines 165-177 and 257-262
SessionCleanup(c) ==
    /\ ws_auth[c].pc = "cleanup"
    /\ ws_auth' = [ws_auth EXCEPT ![c].pc = "reply", ![c].holds = FALSE]
    /\ UNCHANGED <<outsideSessions, cfg, web, host_platform>>

\* handle_auth_start that sets the flag whenever authenticate() returns
WsAuthReply_any_result(c) ==
    /\ ws_auth[c].pc = "reply"
    /\ web' = IF ws_auth[c].value \in {"true", "false"}
              THEN [web EXCEPT !.authorized = TRUE]
              ELSE web
    /\ LET v == ws_auth[c].value
           done == [ws_auth EXCEPT ![c].pc = "idle", ![c].value = "none"]
       IN  ws_auth' =
             IF v = "true"
             THEN [d \in Clients |-> [done[d] EXCEPT !.notice = "state_update", !.text = ""]]
             ELSE IF v = "false"
             THEN [done EXCEPT ![c].notice = "auth_timeout", ![c].text = ""]
             ELSE IF v = "AuthorizeError"
             THEN [done EXCEPT ![c].notice = "error", ![c].text = v]
             ELSE done
    /\ UNCHANGED <<outsideSessions, cfg, host_platform>>

\* handle_auth_start, lines 308-328, with the outcome of authenticate():
\* True sets the flag and is broadcast, False sends auth_timeout, an
\* AuthorizeError sends its text; any other exception leaves the handler
\* and is logged by websocket (lines 166-167)
WsAuthReply(c) ==
    /\ ws_auth[c].pc = "reply"
    /\ web' = IF ws_auth[c].value = "true" THEN [web EXCEPT !.authorized = TRUE]
              ELSE web
    /\ LET v == ws_auth[c].value
           done == [ws_auth EXCEPT ![c].pc = "idle", ![c].value = "none"]
       IN  ws_auth' =
             IF v = "true"
             THEN [d \in Clients |-> [done[d] EXCEPT !.notice = "state_update", !.text = ""]]
             ELSE IF v = "false"
             THEN [done EXCEPT ![c].notice = "auth_timeout", ![c].text = ""]
             ELSE IF v = "AuthorizeError"
             THEN [done EXCEPT ![c].notice = "error", ![c].text = v]
             ELSE done
    /\ UNCHANGED <<outsideSessions, cfg, host_platform>>

SessQuiet ==
    /\ host_platform = ""
    /\ ws_auth = [c \in Clients |-> NoSession]

(***************************************************************************)
(* Specification of the Authorization Session                              *)
(***************************************************************************)
\* the config of the fire specification, with the "autorisierung" section
AuthConfigs ==
    {[valid |-> TRUE, anzahl |-> 0, auth_required |-> r, auth_code |-> 21,
      bits |-> 24, repeats |-> 3]
        : r \in BOOLEAN} \cup
    {[valid |-> FALSE, anzahl |-> 0, auth_required |-> TRUE, auth_code |-> 21,
      bits |-> 24, repeats |-> 3]}

Timeouts == 0..MaxTimeout

\* the codes the radio delivers: the expected one and another
Codes == {21, 22}

AuthQuiet ==
    /\ now = 0
    /\ auth = NoCall
    /\ pi_open = FALSE
    /\ receiver_armed = FALSE
    /\ result = NoResult
    /\ callback = "idle"
    /\ ser_open = FALSE
    /\ ser_buf = <<>>
    /\ scan_sent = 0
    /\ traffic = NoTraffic

FireQuiet ==
    /\ authorized = FALSE
    /\ fire_enabled = FALSE
    /\ koffer_states = {}
    /\ direktzuender_states = {}
    /\ status_file = [exists |-> FALSE, list |-> <<>>]
    /\ rf_sender = FALSE
    /\ fire_call = Idle

InitAuth ==
    /\ SessQuiet
    /\ cfg \in AuthConfigs
    /\ AuthQuiet
    /\ FireQuiet
    /\ CodecQuiet
    /\ WebQuiet

NextAuth ==
    \/ \E p \in Platforms, t \in Timeouts : AuthCall(p, t)
    \/ \E c \in BOOLEAN : PigpioConnect(c)
    \/ \E a \in BOOLEAN : RxArm(a)
    \/ \E c \in Codes : on_code_received(c)
    \/ CallbackDone
    \/ PigpioPoll
    \/ PigpioReturn
    \/ PigpioInterrupt
    \/ PigpioFinally
    \/ Tick
    \/ \E o \in BOOLEAN : SerialOpen(o)
    \/ \E l \in Lines : LineArrives(l)
    \/ SerialDrain
    \/ SerialScan
    \/ SerialPoll
    \/ SerialInterrupt
    \/ SerialFinally

SpecAuth == InitAuth /\ [][NextAuth]_vars

(***************************************************************************)
(* Claims about the Authorization Session                                  *)
(***************************************************************************)
\* authenticate has returned a boolean after waiting on a transport
Answered ==
    /\ auth.pc = "returned"
    /\ auth.platform # ""
    /\ auth.outcome \in {"true", "false"}

C4_TransportReleased ==
    Returned => ~receiver_armed /\ ~pi_open /\ ~ser_open

\* an exception in the middle of the GPIO wait has reached the caller
C4_Witness ==
    /\ auth.pc = "returned"
    /\ auth.platform = "pi4"
    /\ auth.outcome = "AuthorizeError"
    /\ auth.failure = ""
    /\ ~receiver_armed /\ ~pi_open

\* C5: every setup failure (config invalid, no auth code, pigpiod not
\* connected, receiver not set up, serial port not opened) reaches the caller
\* as AuthorizeError, never as the return value false.
C5_SetupFailureRaises ==
    auth.failure # "" =>
        /\ auth.pc = "returned" => auth.outcome = "AuthorizeError"
        /\ auth.pc # "returned" => auth.value = "AuthorizeError"

\* pigpiod was not reachable, and the caller got AuthorizeError
C5_Witness ==
    /\ auth.pc = "returned"
    /\ auth.failure = "pigpio_not_connected"
    /\ auth.outcome = "AuthorizeError"

\* C6: when authorization is configured as not required, authenticate returns
\* true at once, before the platform is detected, and touches no transport:
\* no pigpio connection, no receiver, no serial port, no SCAN.
C6_BypassTouchesNothing ==
    ~get_auth_check =>
        /\ Returned
        /\ auth.pc = "returned" => auth.outcome = "true"
        /\ auth.platform = ""
        /\ now = 0
        /\ ~pi_open /\ ~receiver_armed /\ ~ser_open /\ scan_sent = 0

\* the bypass has been taken
C6_Witness ==
    /\ ~get_auth_check
    /\ auth.pc = "returned"
    /\ auth.outcome = "true"

\* C13: once the expected code has been delivered to a call, a further
\* delivery of it changes neither the result the callback writes nor the
\* course of the call; the first matching line read from the port ends the
\* wait with true, so a later copy is never read; and a call that was
\* delivered the code twice, the first time more than one poll interval
\* before the deadline, returns true.
C13_RepeatedMatchIsOneSuccess ==
    [][/\ (traffic.matches >= 1 /\ traffic'.matches >= 2) => result' = result
       /\ (traffic.matches >= 1 /\ traffic'.matches > traffic.matches) => auth' = auth
       /\ (/\ auth.pc = "serial_wait" /\ ser_buf # <<>> /\ ser_buf' = Tail(ser_buf)
           /\ int(strip(Head(ser_buf))) = get_auth_code) =>
               auth'.pc = "serial_finally" /\ auth'.value = "true"
       /\ (Answered' /\ traffic'.matches >= 2 /\ traffic'.early) =>
               auth'.outcome = "true"]_vars

C13_Witness ==
    /\ Answered
    /\ auth.platform = "pi4"
    /\ traffic.matches >= 2
    /\ auth.outcome = "true"

\* C14: on the serial path the device is opened, then the call sleeps the
\* 2-second settle delay, then discards every buffered line, then sends SCAN
\* exactly once, then polls; lines leave the buffer unparsed before SCAN,
\* and the call ends with true only on a line that arrived after the drain.
C14_OpenSettleDrainScanPoll ==
    [][/\ (ser_open' /\ ~ser_open) =>
             /\ auth.pc = "serial_open" /\ auth'.pc = "serial_settle"
             /\ auth'.wake = now + SettleTicks
       /\ (auth.pc = "serial_settle" /\ auth'.pc # "serial_settle") =>
             \/ auth'.pc = "serial_finally"
             \/ auth'.pc = "serial_scan" /\ now >= auth.wake /\ ser_buf' = <<>>
       /\ scan_sent' # scan_sent =>
             \/ scan_sent' = 0 /\ auth.pc = "returned"
             \/ /\ auth.pc = "serial_scan" /\ scan_sent = 0 /\ scan_sent' = 1
                /\ auth'.pc = "serial_wait"
       /\ (auth'.pc = "serial_wait" /\ auth.pc # "serial_wait") => auth.pc = "serial_scan"
       /\ Len(ser_buf') < Len(ser_buf) =>
             \/ auth.pc = "serial_settle" /\ scan_sent = 0 /\ auth' = [auth EXCEPT !.pc = "serial_scan"]
             \/ auth.pc = "serial_wait" /\ scan_sent = 1
             \/ auth.pc = "serial_finally"
       /\ (auth.pc = "serial_wait" /\ auth'.value = "true") =>
             scan_sent = 1 /\ traffic.matches >= 1]_vars

\* a call in which the expected code arrived during the settle delay, was
\* drained, and did not arrive again
C14_Witness ==
    /\ Answered
    /\ auth.platform = "pi5"
    /\ traffic.before_drain
    /\ traffic.matches = 0
    /\ scan_sent = 1
    /\ auth.outcome = "false"

\* C14 as stated: a serial call returns true only on a line equal to the
\* expected code that arrived after SCAN was sent.
C14_LineBeforeScanNeverAuthorizes ==
    (Answered /\ auth.platform # "pi4" /\ auth.outcome = "true") => traffic.after_scan

\* C15: a line read by the wait loop after SCAN ends the wait with true
\* when, stripped, it does not begin with '#', is not empty, parses as a
\* decimal integer and that integer equals the expected code; every other
\* line (status, empty, no number, another number) leaves the call waiting
\* with no error; and the wait ends with true in no other way.
C15_LineClassification ==
    [][/\ (auth.pc = "serial_wait" /\ ser_buf # <<>> /\ ser_buf' = Tail(ser_buf)) =>
             LET line == strip(Head(ser_buf))
             IN  /\ scan_sent = 1
                 /\ IF /\ ~startswith(line, "#") /\ line # <<>>
                       /\ int(line) # None /\ Val(int(line)) = Val(get_auth_code)
                    THEN auth' = [auth EXCEPT !.pc = "serial_finally", !.value = "true"]
                    ELSE /\ auth'.pc = "serial_wait"
                         /\ auth'.value = auth.value /\ auth'.failure = auth.failure
       /\ (auth.pc = "serial_wait" /\ auth'.value = "true") =>
             /\ ser_buf # <<>> /\ ser_buf' = Tail(ser_buf)
             /\ int(Head(ser_buf)) = get_auth_code]_vars

\* a call that read and passed over a line, then read the expected code
C15_Witness ==
    /\ Answered
    /\ auth.platform = "pi5"
    /\ traffic.skipped >= 1
    /\ auth.outcome = "true"

\* C16: with authorization required, a timeout T and no matching code
\* delivered, authenticate returns false not before T and no later than T
\* plus one poll interval after it was called, on both transports.
C16_FalseAtTimeout ==
    (Answered /\ auth.outcome = "false" /\ traffic.matches = 0) =>
        /\ auth.timeout <= now
        /\ now <= auth.timeout + PollTicks

\* C17: a matching code delivered at time d after the call, d smaller than
\* the timeout, makes authenticate return true within one poll interval
\* after d, on both transports.
C17_TrueWithinPollOfDelivery ==
    (Answered /\ traffic.first_at # None /\ Val(traffic.first_at) < auth.timeout) =>
        /\ auth.outcome = "true"
        /\ now <= Val(traffic.first_at) + PollTicks

\* C20: the platform is read once, when the call selects its transport,
\* and stays what it was read as; 'pi4' selects the GPIO transport, 'pi5'
\* and anything else the serial bridge; a call touches one transport only.
C20_TransportByPlatform ==
    [][/\ auth'.platform # auth.platform => Returned
       /\ (Returned /\ ~Returned') =>
             /\ auth'.platform \in Platforms
             /\ auth'.pc = IF auth'.platform = "pi4" THEN "pigpio_connect"
                           ELSE "serial_open"
       /\ (pi_open' \/ receiver_armed') =>
             (auth'.platform = "pi4" /\ ~ser_open' /\ scan_sent' = 0)
       /\ (ser_open' \/ scan_sent' > 0) =>
             (auth'.platform \in {"pi5", "unknown"} /\ ~pi_open' /\ ~receiver_armed')]_vars

\* a call on an unknown platform waits on the serial bridge
C20_Witness ==
    /\ auth.platform = "unknown"
    /\ auth.pc = "serial_wait"
    /\ ser_open /\ scan_sent = 1
    /\ ~pi_open /\ ~receiver_armed

\* C32: in a GPIO session done implies authenticated in every state,
\* whatever the interleaving of the callback's two writes with the polling
\* thread, so a wait loop that was left on done returns true; as long as
\* every code received differed from the expected one neither flag is set
\* and the wait loop is left only at the deadline.
C32_DoneImpliesAuthenticated ==
    auth.platform = "pi4" =>
        /\ result.done => result.authenticated
        /\ traffic.matches = 0 => (~result.done /\ ~result.authenticated)
        /\ (auth.pc = "pigpio_return" /\ traffic.matches = 0) =>
                elapsed >= auth.timeout
        /\ (auth.pc = "pigpio_return" /\ elapsed < auth.timeout) =>
                (result.done /\ result.authenticated)

\* a code that differs and then the expected code were received; the wait
\* loop was left on done, before the deadline
C32_Witness ==
    /\ auth.platform = "pi4"
    /\ auth.pc = "pigpio_return"
    /\ traffic.count = 2 /\ traffic.matches = 1
    /\ result.done /\ result.authenticated
    /\ elapsed < auth.timeout

\* the steps of the calling thread, of the callback's second write and of
\* the clock: none of them waits for anything but time
Progress ==
    \/ \E c \in BOOLEAN : PigpioConnect(c)
    \/ \E a \in BOOLEAN : RxArm(a)
    \/ CallbackDone
    \/ PigpioPoll
    \/ PigpioReturn
    \/ PigpioFinally
    \/ Tick
    \/ \E o \in BOOLEAN : SerialOpen(o)
    \/ SerialDrain
    \/ SerialScan
    \/ SerialPoll
    \/ SerialFinally

\* authenticate with a thread that keeps running and a clock that keeps
\* going; the traffic is free to come or not
SpecAuthLive == InitAuth /\ [][NextAuth]_vars /\ WF_vars(Progress)

\* C34: every authenticate call returns or raises in the end, whatever
\* traffic arrives; the head of the wait loop that finds the timeout elapsed
\* ends the wait, and a line that is not the expected code (status line,
\* empty line, malformed line, other code) leaves the call in its wait loop.
C34_CallEnds ==
    /\ ~Returned ~> Returned
    /\ [][/\ (/\ auth.pc \in {"pigpio_wait", "serial_wait"}
               /\ now >= auth.wake /\ elapsed >= auth.timeout
               /\ auth' # auth) =>
                  auth'.pc \in {"pigpio_return", "pigpio_finally", "serial_finally"}
          /\ (/\ auth.pc = "serial_wait" /\ auth'.pc # "serial_finally"
              /\ ser_buf # <<>> /\ ser_buf' = Tail(ser_buf)) =>
                  /\ auth'.pc = "serial_wait" /\ auth'.failure = auth.failure
                  /\ int(strip(Head(ser_buf))) # get_auth_code]_vars

\* a call on the serial bridge was given two lines that are not the code
\* and has returned false
C34_Witness ==
    /\ Answered
    /\ auth.platform = "pi5"
    /\ auth.outcome = "false"
    /\ traffic.skipped >= 2

(***************************************************************************)
(* Specification of the codec                                              *)
(***************************************************************************)
\* the burst i is on the air, the receiver is new
\* every edge of burst i, in the order the pin sees them
BurstEdges(i) ==
    IF i.primed
    THEN EdgesOf(<<[level |-> 1, len |-> i.p.pulse]>>, 0, i.start)
         \o Repeat(Train(i.code, i.bits, i.p), i.repeats, 1,
                   TickAfter(i.start, i.p.pulse))
    ELSE Repeat(Train(i.code, i.bits, i.p), i.repeats, 0, i.start)

Transmitted(i) ==
    /\ sent = i
    /\ pending = BurstEdges(i)

InitCodec ==
    /\ SessQuiet
    /\ cfg \in {c \in AuthConfigs : c.valid /\ c.auth_required}
    /\ FireQuiet
    /\ AuthQuiet
    /\ WebQuiet
    /\ rx_state = NewRx
    /\ rx_cb = Watched
    /\ emitted = <<>>
    /\ silence = "begins"
    /\ \E i \in CodecInits : Transmitted(i)

NextCodec ==
    \/ FeedEdge
    \/ Watchdog

SpecCodec == InitCodec /\ [][NextCodec]_vars

(***************************************************************************)
(* Claims about the codec                                                  *)
(***************************************************************************)
\* C3: feeding the edges of the encoder's train for a code C of n bits,
\* 8 <= n <= 32, one by one into rx._cbf makes the decoder emit exactly C
\* with bit count n.  Stated for a burst the decoder can frame: an edge
\* before the leader gap, and a further copy after the trailer gap.
C3_RoundTrip ==
    (/\ pending = <<>> /\ silence = "watchdog" /\ sent.primed /\ sent.repeats >= 2
     /\ MinBits <= sent.bits /\ sent.bits <= MaxBits) =>
        /\ emitted # <<>>
        /\ \A i \in 1..Len(emitted) :
              emitted[i].code = sent.code /\ emitted[i].bits = sent.bits

\* the event that ends a code: the watchdog, or an edge after a long interval
Terminates ==
    /\ rx_state.in_code
    /\ \/ Watchdog
       \/ /\ FeedEdge
          /\ rx_state.last_edge_tick # TickZero
          /\ tickDiff(rx_state.last_edge_tick, Head(pending).tick) > LongGap

\* C11: the handler is invoked only with a bit count in min_bits..max_bits
\* (8..32); a sequence that terminates, by long gap or by watchdog, with
\* fewer or more bits emits nothing, and the decoder is idle afterwards.
C11_EmitsOnlyInRange ==
    [][/\ emitted' # emitted =>
            /\ Terminates
            /\ MinBits <= rx_state'.bits /\ rx_state'.bits <= MaxBits
            /\ emitted' = Append(emitted,
                    [code |-> rx_state'.code, bits |-> rx_state'.bits,
                     gap |-> rx_state'.gap, t0 |-> rx_state'.t0, t1 |-> rx_state'.t1])
       /\ Terminates =>
            /\ ~rx_state'.in_code
            /\ (rx_state'.bits < MinBits \/ rx_state'.bits > MaxBits) =>
                    emitted' = emitted]_vars

\* a burst of 33 bits was terminated by the edge after its trailer gap, and
\* nothing was emitted
C11_Witness ==
    /\ pending = <<>> /\ silence = "watchdog"
    /\ rx_state.bits > MaxBits
    /\ ~rx_state.in_code
    /\ emitted = <<>>

\* C12: the decoder, fed a burst of N > 1 copies of the train of a code C,
\* emits at most N times, and every emission carries the code C.
C12_RepeatsYieldSentCode ==
    (sent.repeats > 1 /\ MinBits <= sent.bits /\ sent.bits <= MaxBits) =>
        /\ Len(emitted) <= sent.repeats
        /\ \A i \in 1..Len(emitted) : emitted[i].code = sent.code

\* the interval that ends at edge k of the burst on the air
IntervalAt(k) ==
    LET all == BurstEdges(sent)
    IN  tickDiff(all[k - 1].tick, all[k].tick)

\* C26: while in_code the intervals are taken in pairs; the edge that
\* completes a pair appends one bit, MSB first, which is 1 exactly if that
\* pair's own first interval is shorter than its second, and adds one to
\* the bit counter; the edge that opens a pair changes neither.
C26_BitFromOwnPair ==
    [][(FeedEdge /\ rx_state.in_code) =>
          LET k == Len(BurstEdges(sent)) - Len(pending) + 1
          IN  IF rx_state.edge % 2 = 1
              THEN /\ rx_state'.bits = rx_state.bits + 1
                   /\ rx_state'.code = 2 * rx_state.code
                        + (IF IntervalAt(k - 1) < IntervalAt(k) THEN 1 ELSE 0)
              ELSE /\ rx_state'.bits = rx_state.bits
                   /\ rx_state'.code = rx_state.code]_vars

\* C27: the edge whose long interval terminates a code leaves the decoder
\* armed for the next code: it is in_code again, with that interval as the
\* gap, so that the intervals which follow are collected without a further
\* long interval.
C27_TerminatingGapArmsNextCode ==
    [][(FeedEdge /\ Terminates) =>
          /\ rx_state'.in_code
          /\ rx_state'.gap = tickDiff(rx_state.last_edge_tick, Head(pending).tick)]_vars

\* C28: a watchdog event while in_code emits the held code exactly if its
\* bit count is in min_bits..max_bits, as a terminating long interval does,
\* and leaves the decoder idle; a watchdog event while idle changes no
\* decoder field and emits nothing, so a code that a long gap terminated is
\* not emitted again.
C28_WatchdogTerminatesOnce ==
    [][Watchdog =>
          IF rx_state.in_code
          THEN /\ rx_state' = [rx_state EXCEPT !.in_code = FALSE]
               /\ emitted' =
                    IF MinBits <= rx_state.bits /\ rx_state.bits <= MaxBits
                    THEN Append(emitted,
                            [code |-> rx_state.code, bits |-> rx_state.bits,
                             gap |-> rx_state.gap, t0 |-> rx_state.t0,
                             t1 |-> rx_state.t1])
                    ELSE emitted
          ELSE rx_state' = rx_state /\ emitted' = emitted]_vars

\* two copies: the first was terminated and emitted by the gap they share,
\* the watchdog after the burst found the decoder idle and emitted nothing
C28_Witness ==
    /\ sent.repeats = 2 /\ sent.primed
    /\ silence = "watchdog"
    /\ ~rx_state.in_code
    /\ Len(emitted) = 1
    /\ emitted[1].bits = sent.bits

\* C31: the long interval that terminates a code is not taken as the t0 or
\* t1 of a pair and adds no bit: the edge that ends the code leaves code,
\* bits, t0 and t1 as they were, and what is emitted carries the number of
\* pairs completed before it.
C31_TerminatingIntervalIsNoData ==
    [][(FeedEdge /\ Terminates) =>
          /\ rx_state'.bits = rx_state.bits
          /\ rx_state'.code = rx_state.code
          /\ rx_state'.t0 = rx_state.t0 /\ rx_state'.t1 = rx_state.t1
          /\ \A i \in (Len(emitted) + 1)..Len(emitted') :
                emitted'[i].bits = rx_state.bits]_vars

(***************************************************************************)
(* Specification of a receiver whose burst ends in silence                 *)
(***************************************************************************)
\* bursts of one bit more than the minimum: the code held when the line
\* goes silent has a bit count in range.  pigpio's tick wraps every 2^32
\* microseconds: the second start puts the edge before the leader gap on
\* tick 0.
SilenceInits ==
    UNION {{[code |-> c, bits |-> MinBits + 1, repeats |-> k, p |-> p,
             primed |-> b, start |-> t]
                : c \in {0, 2 ^ MinBits - 1}, k \in 1..MaxRepeats, b \in BOOLEAN,
                  t \in {Tick32(0, 1000), Tick32(65535, 65536 - p.pulse)}}
            : p \in PulseTrainParams}

\* the receiver as rx.__init__ arms it, on a pin whose watchdog is off (as
\* pigpio starts it) or was left on by another client of pigpiod
InitSilence ==
    /\ SessQuiet
    /\ cfg \in {c \in AuthConfigs : c.valid /\ c.auth_required}
    /\ FireQuiet
    /\ AuthQuiet
    /\ WebQuiet
    /\ rx_state = NewRx
    /\ rx_cb \in {NewCb, Watched}
    /\ emitted = <<>>
    /\ silence = "begins"
    /\ \E i \in SilenceInits : Transmitted(i)

NextSilence ==
    \/ FeedEdge
    \/ Watchdog

\* pigpio delivers every edge and every watchdog event of the pin to the
\* registered callback
SpecSilence ==
    InitSilence /\ [][NextSilence]_vars /\ WF_vars(FeedEdge) /\ WF_vars(Watchdog)

\* C29: the receiver that rx.__init__ armed has an inactivity watchdog on
\* its pin, so that a code with a bit count in range, whose last edge is
\* followed by silence, is terminated and emitted to the handler.
C29_SilenceStillEmits ==
    (/\ rx_cb = NewCb
     /\ pending = <<>> /\ rx_state.in_code
     /\ MinBits <= rx_state.bits /\ rx_state.bits <= MaxBits)
        ~> (/\ ~rx_state.in_code
            /\ emitted # <<>>
            /\ emitted[Len(emitted)].bits = rx_state.bits)

\* C30: an edge that finds the decoder idle emits nothing; if its interval
\* since the previous edge is at most 4000 (0 for the very first edge) it
\* changes only the last-edge timestamp, and if the interval is greater it
\* puts the decoder in_code with edge 0, bits 0, code 0 and that interval
\* as the gap.
C30_IdleWaitsForLongGap ==
    [][(FeedEdge /\ ~rx_state.in_code) =>
          LET k == Len(BurstEdges(sent)) - Len(pending) + 1
              interval == IF k = 1 THEN 0 ELSE IntervalAt(k)
              stamped == [rx_state EXCEPT !.last_edge_tick = Head(pending).tick]
          IN  /\ emitted' = emitted
              /\ rx_state' =
                    IF interval > LongGap
                    THEN [stamped EXCEPT !.in_code = TRUE, !.edge = 0, !.bits = 0,
                                         !.code = 0, !.gap = interval]
                    ELSE stamped]_vars

(***************************************************************************)
(* Specification of a receiver that is cancelled                           *)
(***************************************************************************)
\* the bursts during which the receiver is cancelled: all zeros and all
\* ones, of the smallest bit count
CancelInits ==
    {i \in CodecInits : /\ i.bits = MinBits
                        /\ i.code \in {0, 2 ^ MinBits - 1}
                        /\ i.start = Tick32(0, 1000)}

InitCancel ==
    /\ SessQuiet
    /\ cfg \in {c \in AuthConfigs : c.valid /\ c.auth_required}
    /\ FireQuiet
    /\ AuthQuiet
    /\ WebQuiet
    /\ rx_state = NewRx
    /\ rx_cb = Watched
    /\ emitted = <<>>
    /\ silence = "begins"
    /\ \E i \in CancelInits : Transmitted(i)

NextCancel ==
    \/ FeedEdge
    \/ Watchdog
    \/ RxCancel
    \/ Unheard

SpecCancel == InitCancel /\ [][NextCancel]_vars

\* C19: once rx.cancel() has completed, no later edge or watchdog event
\* reaches the decoder or its code handler; cancel leaves the callback
\* detached; a second cancel changes nothing.
C19_CancelDetaches ==
    [][/\ rx_cb.cancels >= 1 => (emitted' = emitted /\ rx_state' = rx_state)
       /\ rx_cb'.cancels > rx_cb.cancels => ~rx_cb'.cb
       /\ (rx_cb.cancels >= 1 /\ rx_cb'.cancels > rx_cb.cancels) =>
             (rx_cb'.cb = rx_cb.cb /\ rx_cb'.detaches = rx_cb.detaches)]_vars

\* the receiver was cancelled twice in the middle of a code; the rest of the
\* burst and the watchdog event have passed
C19_Witness ==
    /\ rx_cb.cancels = 2
    /\ rx_cb.detaches = 1
    /\ rx_state.in_code
    /\ pending = <<>> /\ silence = "watchdog"
    /\ emitted = <<>>

(***************************************************************************)
(* Specification of the Fire Orchestrator                                  *)
(***************************************************************************)
\* a store file an earlier run left: entry i has nr = i
StoreLists ==
    UNION {[1..n -> {[nr |-> i, available |-> b] : i \in 1..n, b \in BOOLEAN}]
              : n \in 0..(MaxNr - 1)}

WellFormed(list) == \A i \in 1..Len(list) : list[i].nr = i

InitFiles ==
    {[exists |-> FALSE, list |-> <<>>]} \cup
    {[exists |-> TRUE, list |-> l] : l \in {s \in StoreLists : WellFormed(s)}}

\* an invalid config has no usable "direktzuender" section; a valid one may
\* carry a bit count or a repeat count of 0 (_validate_rf_sender asks only
\* for numbers)
Configs ==
    {[valid |-> TRUE, anzahl |-> n, auth_required |-> TRUE, auth_code |-> 21,
      bits |-> 24, repeats |-> 3]
        : n \in 0..(MaxNr - 1)} \cup
    {[valid |-> TRUE, anzahl |-> MaxNr - 1, auth_required |-> TRUE, auth_code |-> 21,
      bits |-> b, repeats |-> r]
        : <<b, r>> \in {<<0, 3>>, <<24, 0>>}} \cup
    {[valid |-> FALSE, anzahl |-> 0, auth_required |-> TRUE, auth_code |-> 21,
      bits |-> 24, repeats |-> 3]}

Init ==
    /\ SessQuiet
    /\ cfg \in Configs
    /\ authorized = FALSE
    /\ fire_enabled = FALSE
    /\ koffer_states = {}
    /\ direktzuender_states = {}
    /\ status_file \in InitFiles
    /\ rf_sender = FALSE
    /\ fire_call = Idle
    /\ AuthQuiet
    /\ CodecQuiet
    /\ WebQuiet

Next ==
    \/ \E v \in BOOLEAN : SetAuthorized(v)
    \/ \E v \in BOOLEAN : SetFireEnabled(v)
    \/ \E k \in KofferIds, n \in Kanaele : ResetKoffer(k, n)
    \/ \E n \in Nummern : ResetDirektzuender(n)
    \/ ResetAll
    \/ \E n \in Nummern, a \in BOOLEAN : SetDirektzuenderAvailable(n, a)
    \/ GetDirektzuenderList
    \/ \E k \in KofferIds, n \in Kanaele : FireKofferCheck(k, n)
    \/ \E n \in Nummern : FireDirektzuenderCheck(n)
    \/ \E s \in BOOLEAN : FireSend(s)
    \/ FireMark
    \/ Cleanup

Spec == Init /\ [][Next]_vars

(***************************************************************************)
(* Claims about the Fire Orchestrator                                      *)
(***************************************************************************)
\* the persisted store marks igniter nr unavailable
MarkedUnavailable(nr) ==
    /\ status_file.exists
    /\ \E i \in 1..Len(status_file.list) :
          status_file.list[i].nr = nr /\ ~status_file.list[i].available

RejectedNow ==
    /\ fire_call'.pc = "idle"
    /\ fire_call'.result = "failed"
    /\ fire_call'.msg # ""
    /\ fire_call'.tx = <<>>
    /\ UNCHANGED <<koffer_states, direktzuender_states>>

\* C2: a fire request is rejected with a reason, transmits nothing and changes
\* no fired flag, whenever authorized is false, whenever fire_enabled is false,
\* and, for a standalone igniter, whenever the store marks it unavailable.
C2_FireRejected ==
    [][/\ \A k \in KofferIds, n \in Kanaele :
            FireKofferCheck(k, n) /\ (~authorized \/ ~fire_enabled) => RejectedNow
       /\ \A n \in Nummern :
            /\ FireDirektzuenderCheck(n)
            /\ (~authorized \/ ~fire_enabled \/ MarkedUnavailable(n))
            => RejectedNow]_vars

\* the part of C2 that the code keeps: the two flags gate every request
C2_GatesReject ==
    [][(/\ \/ \E k \in KofferIds, n \in Kanaele : FireKofferCheck(k, n)
           \/ \E n \in Nummern : FireDirektzuenderCheck(n)
        /\ (~authorized \/ ~fire_enabled))
       => RejectedNow /\ UNCHANGED <<status_file, rf_sender>>]_vars

\* the code of a target, by the numbering rules
CodeOf(kind, id, kanal) ==
    IF kind = "koffer" THEN 100 * id + kanal ELSE ErsteBoxNr + id - 1

\* C7: a request that passed all gates has transmitted the code of its target
\* exactly once before the target's fired flag is set, and a fired flag is set
\* only by such a request.
C7_TransmitOnceThenMark ==
    [][/\ \A t \in koffer_states' \ koffer_states :
            /\ fire_call.pc = "mark" /\ fire_call.kind = "koffer"
            /\ t = <<fire_call.id, fire_call.kanal>>
            /\ fire_call.tx = <<CodeOf("koffer", t[1], t[2])>>
       /\ \A n \in direktzuender_states' \ direktzuender_states :
            /\ fire_call.pc = "mark" /\ fire_call.kind = "direktzuender"
            /\ n = fire_call.id
            /\ fire_call.tx = <<CodeOf("direktzuender", n, 0)>>
       /\ fire_call.pc = "mark" =>
            fire_call.tx = <<CodeOf(fire_call.kind, fire_call.id, fire_call.kanal)>>
       /\ fire_call.pc = "send" => fire_call.tx = <<>>]_vars

\* both kinds of target have been fired, and a request has returned (True, None)
C7_Witness ==
    /\ fire_call.pc = "idle" /\ fire_call.result = "ok"
    /\ 1 \in direktzuender_states
    /\ <<2, 1>> \in koffer_states

\* C9: a fired flag that is set is cleared only by the reset of that target
\* or by reset_all.
C9_ClearedOnlyByReset ==
    [][/\ \A t \in koffer_states \ koffer_states' :
            ResetKoffer(t[1], t[2]) \/ ResetAll
       /\ \A n \in direktzuender_states \ direktzuender_states' :
            ResetDirektzuender(n) \/ ResetAll]_vars

\* both kinds of flag outlive a disarm, the loss of the authorization, a later
\* rejected request and a change of availability
C9_Witness ==
    /\ <<2, 1>> \in koffer_states
    /\ 1 \in direktzuender_states
    /\ ~fire_enabled /\ ~authorized
    /\ fire_call.result = "failed"
    /\ MarkedUnavailable(1)

\* C10: no fire request changes the persisted available value of an entry.
C10_FireKeepsAvailability ==
    [][(\/ \E k \in KofferIds, n \in Kanaele : FireKofferCheck(k, n)
        \/ \E n \in Nummern : FireDirektzuenderCheck(n)
        \/ \E s \in BOOLEAN : FireSend(s)
        \/ FireMark) =>
         \A i \in 1..Len(status_file.list) :
            /\ i <= Len(status_file'.list)
            /\ status_file'.list[i] = status_file.list[i]]_vars

\* C23: the availability store only grows: no operation makes the persisted
\* list shorter or renumbers an entry, and a load (get_direktzuender_list)
\* keeps every stored entry as it was and appends only available entries
\* numbered by their position.
C23_StoreGrowthOnly ==
    [][/\ Len(status_file'.list) >= Len(status_file.list)
       /\ \A i \in 1..Len(status_file.list) :
             status_file'.list[i].nr = status_file.list[i].nr
       /\ GetDirektzuenderList =>
             /\ \A i \in 1..Len(status_file.list) :
                   status_file'.list[i] = status_file.list[i]
             /\ \A i \in (Len(status_file.list) + 1)..Len(status_file'.list) :
                   status_file'.list[i] = [nr |-> i, available |-> TRUE]]_vars

KanalNummern == 1..10

\* C22: with a valid configuration the code of channel ch of a configured
\* group is the group's base number plus ch, for ch in 1..10, and the code
\* of standalone igniter nr is the first box number plus nr minus 1; the
\* values are the same in every state (200,3 -> 203; 1001,15 -> 1015), and
\* a request that has reached the sender carries the code of these rules.
C22_CodeArithmetic ==
    cfg.valid =>
      /\ \A i \in 1..Len(KofferList), ch \in KanalNummern :
            get_channel_code(KofferList[i].id, ch)
                = Some(KofferList[i].koffer_nummer + ch)
      /\ \A nr \in 1..DefaultAnzahl :
            get_direktzuender_code(nr) = Some(ErsteBoxNr + nr - 1)
      /\ get_channel_code(2, 3) = Some(203) /\ get_channel_code(2, 9) = Some(209)
      /\ get_direktzuender_code(15) = Some(1015)
      /\ get_direktzuender_code(1) = Some(1001)
      /\ fire_call.pc \in {"send", "mark"} =>
            fire_call.code =
              IF fire_call.kind = "koffer"
              THEN Some(200 + fire_call.kanal)
              ELSE Some(ErsteBoxNr + fire_call.id - 1)

\* a request for channel 2 of the group with base 200 has transmitted 202
C22_Witness ==
    /\ cfg.valid
    /\ fire_call.pc = "mark" /\ fire_call.kind = "koffer"
    /\ fire_call.kanal = 2
    /\ fire_call.tx = <<202>>

\* C36: fire does not look at the fired flag.  A request that is accepted
\* has transmitted its code exactly once and a request that is not accepted
\* has transmitted nothing; with authorized and armed true, a code for the
\* target and a sender at hand, a request goes on to transmit whatever the
\* fired flags are; the accepted request leaves the target's flag set and
\* clears no flag.
C36_FireIgnoresFiredFlag ==
    /\ [](Len(fire_call.tx) = IF fire_call.pc = "mark" THEN 1 ELSE 0)
    /\ [](fire_call.pc = "mark" => fire_call.tx = <<Val(fire_call.code)>>)
    /\ [][/\ (fire_call.pc = "mark" /\ fire_call' # fire_call) =>
                /\ fire_call'.result = "ok"
                /\ IF fire_call.kind = "koffer"
                   THEN <<fire_call.id, fire_call.kanal>> \in koffer_states'
                   ELSE fire_call.id \in direktzuender_states'
                /\ koffer_states \subseteq koffer_states'
                /\ direktzuender_states \subseteq direktzuender_states'
          /\ \A k \in KofferIds, n \in Kanaele :
                (/\ FireKofferCheck(k, n)
                 /\ authorized /\ fire_enabled /\ rf_sender
                 /\ get_channel_code(k, n) # None) =>
                    /\ fire_call'.pc = "send"
                    /\ fire_call'.code = get_channel_code(k, n)
          /\ \A nr \in Nummern :
                (/\ FireDirektzuenderCheck(nr)
                 /\ authorized /\ fire_enabled /\ rf_sender
                 /\ get_direktzuender_code(nr) # None
                 /\ fire_call'.msg # "Direktzuender nicht verfuegbar") =>
                    /\ fire_call'.pc = "send"
                    /\ fire_call'.code = get_direktzuender_code(nr)]_vars

\* a request for a channel whose fired flag is set has transmitted the code
C36_Witness ==
    /\ fire_call.pc = "mark"
    /\ fire_call.kind = "koffer"
    /\ <<fire_call.id, fire_call.kanal>> \in koffer_states
    /\ authorized /\ fire_enabled
    /\ Len(fire_call.tx) = 1

\* C37: fire_direktzuender goes on to transmit only for an index within
\* 1..anzahl of the configuration; a request for any other index, an index
\* the store still lists from a larger configuration included, is rejected
\* before the sender is reached.
C37_FireOnlyConfiguredIndices ==
    (fire_call.pc \in {"send", "mark"} /\ fire_call.kind = "direktzuender") =>
        fire_call.id \in 1..cfg.anzahl

\* C38: an igniter the store holds as unavailable stays unavailable in the
\* store until set_direktzuender_available(nr, true) is called: no other
\* operation, a load whose read fails included, makes its persisted entry
\* available or removes it.
C38_UnavailableUntilSetAvailable ==
    [][\A nr \in Nummern :
          (MarkedUnavailable(nr) /\ ~MarkedUnavailable(nr)') =>
              SetDirektzuenderAvailable(nr, TRUE)]_vars

(***************************************************************************)
(* Specification of the web console                                        *)
(***************************************************************************)
WebConfigs ==
    {[valid |-> TRUE, anzahl |-> n, auth_required |-> r, auth_code |-> 21,
      bits |-> 24, repeats |-> 3]
        : n \in 0..(MaxNr - 1), r \in BOOLEAN} \cup
    {[valid |-> FALSE, anzahl |-> 0, auth_required |-> TRUE, auth_code |-> 21,
      bits |-> 24, repeats |-> 3]}

InitWeb ==
    /\ SessQuiet
    /\ cfg \in WebConfigs
    /\ authorized = FALSE
    /\ fire_enabled = FALSE
    /\ koffer_states = {}
    /\ direktzuender_states = {}
    /\ status_file \in InitFiles
    /\ rf_sender = FALSE
    /\ fire_call = Idle
    /\ AuthQuiet
    /\ CodecQuiet
    /\ web = WebStart
    /\ web_rf_sender = FALSE
    /\ web_call = WebIdle

NextWeb ==
    \/ \E o \in {"true", "false", "AuthorizeError"} : HandleAuthStart(o)
    \/ \E v \in BOOLEAN : HandleSetFireEnabled(v)
    \/ \E k \in KofferIds, n \in Kanaele : HandleReset("koffer", k, n)
    \/ \E n \in Nummern : HandleReset("direktzuender", n, 0)
    \/ HandleResetAll
    \/ \E n \in Nummern, a \in BOOLEAN : WebSetAvailable(n, a)
    \/ \E k \in KofferIds, n \in Kanaele : HandleFireKoffer(k, n)
    \/ \E n \in Nummern : HandleFireDirektzuender(n)
    \/ \E s \in BOOLEAN : HandleFireSend(s)
    \/ HandleFireMark

SpecWeb == InitWeb /\ [][NextWeb]_vars

(***************************************************************************)
(* Claims about failed transmits                                           *)
(***************************************************************************)
\* the web console's fire handling ends with an error message and no flag set
WebFailedNow ==
    /\ web_call'.pc = "idle"
    /\ web_call'.outcome = "error"
    /\ web_call'.msg # ""
    /\ UNCHANGED web

\* C8: if the transmit fails during fire (the sender cannot be initialised,
\* or send raises RFSenderError), fire returns a failed result with a message
\* instead of raising, and the target's fired flag is unchanged.
C8_TransmitFailureIsFailedResult ==
    [][/\ \A s \in BOOLEAN :
            HandleFireSend(s) /\ ~s => WebFailedNow
       /\ \A k \in KofferIds, n \in Kanaele :
            /\ HandleFireKoffer(k, n)
            /\ web_gate = "" /\ get_channel_code(k, n) # None /\ ~web_rf_sender'
            => WebFailedNow
       /\ \A n \in Nummern :
            /\ HandleFireDirektzuender(n)
            /\ web_gate = "" /\ web_call'.outcome = "silent" /\ cfg.valid
            => WebFailedNow]_vars

\* the part of C8 that fire_control.py keeps: a sender that cannot be
\* initialised and a failing send both end in (False, message), flag unset
C8_FireControlFails ==
    [][/\ \A s \in BOOLEAN :
            FireSend(s) /\ ~(rf_sender /\ s) =>
                /\ fire_call'.result = "failed" /\ fire_call'.msg # ""
                /\ UNCHANGED <<koffer_states, direktzuender_states>>
       /\ (/\ \/ \E k \in KofferIds, n \in Kanaele : FireKofferCheck(k, n)
              \/ \E n \in Nummern : FireDirektzuenderCheck(n)
           /\ ~rf_sender') =>
                /\ fire_call'.result = "failed" /\ fire_call'.msg # ""
                /\ UNCHANGED <<koffer_states, direktzuender_states>>]_vars

\* C33: whatever is interleaved with a fire request, a code is transmitted
\* only in a state in which the authorized flag and the armed flag are true.
C33_TransmitOnlyWhileArmed ==
    [][web_call'.tx # web_call.tx => (web.authorized /\ web.fire_enabled)]_vars

(***************************************************************************)
(* Specification of the auth_start requests                                *)
(***************************************************************************)
InitSessions ==
    /\ cfg \in AuthConfigs
    /\ FireQuiet
    /\ AuthQuiet
    /\ CodecQuiet
    /\ web = WebStart
    /\ web_rf_sender = FALSE
    /\ web_call = WebIdle
    /\ host_platform \in Platforms
    /\ ws_auth = [c \in Clients |-> NoSession]

NextSessions ==
    \/ \E c \in Clients : WsAuthStart(c)
    \/ \E c \in Clients : SessionAuthenticate(c)
    \/ \E c \in Clients, armed \in BOOLEAN : SessionArm(c, armed)
    \/ \E c \in Clients : SessionImportFails(c)
    \/ \E c \in Clients, v \in {"true", "false", "AuthorizeError"} : SessionEnds(c, v)
    \/ \E c \in Clients : SessionCleanup(c)
    \/ \E c \in Clients : WsAuthReply(c)

SpecSessions == InitSessions /\ [][NextSessions]_vars

(***************************************************************************)
(* Specification of the console: every message of handle_ws_message        *)
(***************************************************************************)
InitConsole ==
    /\ cfg \in WebConfigs
    /\ authorized = FALSE
    /\ fire_enabled = FALSE
    /\ koffer_states = {}
    /\ direktzuender_states = {}
    /\ status_file = [exists |-> FALSE, list |-> <<>>]
    /\ rf_sender = FALSE
    /\ fire_call = Idle
    /\ AuthQuiet
    /\ CodecQuiet
    /\ web = WebStart
    /\ web_rf_sender = FALSE
    /\ web_call = WebIdle
    /\ host_platform = "pi4"
    /\ ws_auth = [c \in Clients |-> NoSession]

\* handle_ws_message, lines 175-191: fire, reset, reset_all,
\* set_fire_enabled and auth_start, the last one in its steps
NextConsole ==
    \/ NextSessions
    \/ \E v \in BOOLEAN : HandleSetFireEnabled(v)
    \/ \E k \in KofferIds, n \in Kanaele : HandleReset("koffer", k, n)
    \/ \E n \in Nummern : HandleReset("direktzuender", n, 0)
    \/ HandleResetAll
    \/ \E k \in KofferIds, n \in Kanaele : HandleFireKoffer(k, n)
    \/ \E n \in Nummern : HandleFireDirektzuender(n)
    \/ \E s \in BOOLEAN : HandleFireSend(s)
    \/ HandleFireMark

SpecConsole == InitConsole /\ [][NextConsole]_vars

\* C35: the console's authorized flag is true at startup only when
\* authorization is configured as not required; afterwards it changes only
\* in the step of handle_auth_start that follows an authenticate call that
\* returned true, and then to true; no other message, and no attempt that
\* timed out or raised, changes it, and a true flag stays true.
C35_AuthorizedOnlyBySuccess ==
    /\ web.authorized => ~cfg.auth_required
    /\ [][/\ web'.authorized # web.authorized =>
                \E c \in Clients : /\ ws_auth[c].pc = "reply"
                                   /\ ws_auth[c].value = "true"
                                   /\ ws_auth'[c].pc = "idle"
                                   /\ web'.authorized
          /\ web.authorized => web'.authorized]_vars

\* authorization is required and was given, and a later attempt of a client
\* has timed out
C35_Witness ==
    /\ cfg.auth_required
    /\ web.authorized
    /\ \E c \in Clients : ws_auth[c].notice = "auth_timeout"

(***************************************************************************)
(* Specification of the two implementations side by side                   *)
(***************************************************************************)
\* corresponding states: the same flags on both sides, no sender yet, no
\* request answered yet
InitPair ==
    /\ SessQuiet
    /\ cfg \in Configs
    /\ authorized \in BOOLEAN
    /\ fire_enabled = FALSE
    /\ koffer_states = {}
    /\ direktzuender_states = {}
    /\ status_file \in InitFiles
    /\ rf_sender = FALSE
    /\ fire_call = Idle
    /\ AuthQuiet
    /\ CodecQuiet
    /\ web = [authorized |-> authorized, fire_enabled |-> FALSE,
              koffer_states |-> {}, direktzuender_states |-> {}]
    /\ web_rf_sender = FALSE
    /\ web_call = WebIdle

NextPair ==
    \/ \E k \in KofferIds, n \in Kanaele, e \in SenderEnvs : PairFireKoffer(k, n, e)
    \/ \E n \in Nummern, e \in Envs : PairFireDirektzuender(n, e)
    \/ \E k \in KofferIds, n \in Kanaele : PairReset("koffer", k, n)
    \/ \E n \in Nummern : PairReset("direktzuender", n, 0)
    \/ PairResetAll
    \/ \E v \in BOOLEAN : PairSetFireEnabled(v)
    \/ \E n \in Nummern, a \in BOOLEAN, e \in FileEnvs : PairSetAvailable(n, a, e)

SpecPair == InitPair /\ [][NextPair]_vars

\* C40: after the same requests from corresponding states the console and
\* the Fire Orchestrator have accepted or refused the last request alike,
\* have transmitted the same codes for it, and hold the same flags.
C40_ConsoleMatchesOrchestrator ==
    /\ web.authorized = authorized
    /\ web.fire_enabled = fire_enabled
    /\ (web_call.outcome = "fired") = (fire_call.result = "ok")
    /\ web_call.tx = fire_call.tx
    /\ web.koffer_states = koffer_states
    /\ web.direktzuender_states = direktzuender_states

\* what no reset touches: authorized, armed, the persisted availability,
\* the senders and what the last fire request transmitted
ResetKeeps ==
    /\ UNCHANGED <<authorized, fire_enabled, status_file, rf_sender, fire_call,
                   web_rf_sender, web_call>>
    /\ web'.authorized = web.authorized
    /\ web'.fire_enabled = web.fire_enabled

\* C39: reset(target) clears the fired flag of that target and of no other,
\* reset_all clears every fired flag of both kinds, in state.py and in the
\* console alike; neither changes authorized, armed or the persisted
\* availability, and neither transmits.
C39_ResetClearsOnlyFlags ==
    [][/\ \A k \in KofferIds, n \in Kanaele :
             PairReset("koffer", k, n) =>
                 /\ koffer_states' = koffer_states \ {<<k, n>>}
                 /\ web'.koffer_states = web.koffer_states \ {<<k, n>>}
                 /\ direktzuender_states' = direktzuender_states
                 /\ web'.direktzuender_states = web.direktzuender_states
                 /\ ResetKeeps
       /\ \A nr \in Nummern :
             PairReset("direktzuender", nr, 0) =>
                 /\ direktzuender_states' = direktzuender_states \ {nr}
                 /\ web'.direktzuender_states = web.direktzuender_states \ {nr}
                 /\ koffer_states' = koffer_states
                 /\ web'.koffer_states = web.koffer_states
                 /\ ResetKeeps
       /\ PairResetAll =>
             /\ koffer_states' = {} /\ direktzuender_states' = {}
             /\ web'.koffer_states = {} /\ web'.direktzuender_states = {}
             /\ ResetKeeps]_vars

\* channel 2 of the group was fired last and has been reset since, and
\* channel 1 is still fired on both sides
C39_Witness ==
    /\ fire_call.tx = <<202>>
    /\ koffer_states = {<<2, 1>>}
    /\ web.koffer_states = {<<2, 1>>}
    /\ authorized /\ fire_enabled

\* C21: when handle_auth_start ends, a false result of authenticate has
\* sent auth_timeout to the requesting client and to nobody else, an error
\* raised by authenticate has sent an error message with the error's text
\* to that client, and in both cases the authorized flag is what it was.
C21_TimeoutAndErrorToldApart ==
    [][\A c \in Clients :
          (ws_auth[c].pc = "reply" /\ ws_auth'[c].pc = "idle"
           /\ ws_auth[c].value # "true") =>
              /\ web'.authorized = web.authorized
              /\ \A d \in Clients \ {c} : ws_auth'[d] = ws_auth[d]
              /\ IF ws_auth[c].value = "false"
                 THEN ws_auth'[c].notice = "auth_timeout"
                 ELSE /\ ws_auth'[c].notice = "error"
                      /\ ws_auth'[c].text = ws_auth[c].value]_vars

\* C18: whatever the interleaving of the auth_start requests of the
\* clients, at most one authenticate call is between arming and cleanup of
\* the host's transport (its GPIO line or its serial device).
C18_OneSessionPerTransport ==
    Cardinality(Owners) <= 1

====
